---- MODULE Spec2Model ----
(***************************************************************************)
(* Model of the N2S efficiency calculation engine (src/model.py,           *)
(* src/config.py) and of the adapter that drives it (src/app.py).          *)
(*                                                                         *)
(* Arithmetic.  The engine computes with Python floats; the model computes *)
(* the same expressions exactly, on integers that carry a fixed            *)
(* denominator:                                                            *)
(*   hours            are stored times HoursScale (1 hour = 200),          *)
(*   costs, savings   are stored times HoursScale (1 dollar = 200),        *)
(*   avoidance        is stored times HoursScale * AvoidanceScale,         *)
(*   multiplier       of a cost-avoidance preset is stored in halves,      *)
(*   ongoing_factor   of a cost-avoidance preset is stored in twentieths,  *)
(*   risk weights     are stored times RiskScale (in halves), and          *)
(*   risk-adjusted    hours times HoursScale * RiskScale,                  *)
(*   maturity, allocation percentages and the blended rate are integers.   *)
(* total_hours ranges over multiples of CALIBRATED_HOURS / 2, so that the  *)
(* size scale factor total_hours / CALIBRATED_HOURS is a number of halves. *)
(*                                                                         *)
(* The role and category functions and the initiative impact table are     *)
(* modelled with rationals [n |-> numerator, d |-> denominator]; the       *)
(* savings percentages of the maturity assessment are stored times         *)
(* SavingsScale (in tenths of a percent).                                  *)
(***************************************************************************)
EXTENDS Integers, Sequences, FiniteSets, TLC

(***************************************************************************)
(* Bounds of the model.                                                    *)
(***************************************************************************)
MaxSizeSteps == 2
MaxRate == 2
MaxPhaseHours == 2
MaxTableHours == 2

(***************************************************************************)
(* Static configuration (src/config.py).                                   *)
(***************************************************************************)
PHASE_ORDER ==
    <<"Discover", "Plan", "Design", "Build", "Test", "Deploy", "Post Go-Live">>

Phases == {PHASE_ORDER[n] : n \in 1..Len(PHASE_ORDER)}

DEFAULT_PHASE_ALLOCATION ==
    "Discover" :> 5 @@ "Plan" :> 10 @@ "Design" :> 15 @@ "Build" :> 25 @@
    "Test" :> 20 @@ "Deploy" :> 10 @@ "Post Go-Live" :> 15

INITIATIVE_FALLBACK ==
    <<"Modernization Studio", "AI/Automation", "N2S CARM", "Preconfigured Envs",
      "Automated Testing", "EDCC", "Integration Code Reuse",
      "Agile + DevOps Practices">>

Initiatives == {INITIATIVE_FALLBACK[n] : n \in 1..Len(INITIATIVE_FALLBACK)}

\* multiplier in halves, ongoing_factor in twentieths
COST_AVOIDANCE_OPTIONS ==
    "None (0x)"           :> [multiplier |-> 0,  ongoing_factor |-> 0]  @@
    "Minimal (0.5x)"      :> [multiplier |-> 1,  ongoing_factor |-> 5]  @@
    "Conservative (1.5x)" :> [multiplier |-> 3,  ongoing_factor |-> 10] @@
    "Moderate (2.5x)"     :> [multiplier |-> 5,  ongoing_factor |-> 16] @@
    "Aggressive (4x)"     :> [multiplier |-> 8,  ongoing_factor |-> 24] @@
    "Maximum (6x)"        :> [multiplier |-> 12, ongoing_factor |-> 30]

\* the sidebar sets a risk weight in steps of 0.5: weights are stored in halves
RiskScale == 2

DEFAULT_RISK_WEIGHTS ==
    "Discover" :> 1 * RiskScale @@ "Plan" :> 2 * RiskScale @@
    "Design" :> 3 * RiskScale @@ "Build" :> 4 * RiskScale @@
    "Test" :> 5 * RiskScale @@ "Deploy" :> 6 * RiskScale @@
    "Post Go-Live" :> 7 * RiskScale

(***************************************************************************)
(* The calibrated matrix (src/model.py): one column per phase, one entry   *)
(* per initiative in the order of INITIATIVE_FALLBACK.                     *)
(***************************************************************************)
\* a plausible slip: the minus sign of one entry is lost (Automated Testing, Test)
get_calibrated_matrix_sign_lost ==
    "Discover"     :> << -26,  -19,  -37,  -45,  -12,  -33,  -38,  -45>> @@
    "Plan"         :> << -37,  -32,  -59,  -71,  -19,  -51,  -55,  -63>> @@
    "Design"       :> << -59,  -51,  -85,  -93,  -71,  -66,  -79,  -71>> @@
    "Build"        :> << -99, -144, -118, -177, -237, -112, -218, -125>> @@
    "Test"         :> <<-237, -218, -190, -144,  303, -125, -336, -177>> @@
    "Deploy"       :> << -51,  -96,  -37,  -71,  -59,  -42,  -55,  -85>> @@
    "Post Go-Live" :> <<-177, -118, -144, -211,  -99, -112, -164, -144>>

get_calibrated_matrix ==
    "Discover"     :> << -26,  -19,  -37,  -45,  -12,  -33,  -38,  -45>> @@
    "Plan"         :> << -37,  -32,  -59,  -71,  -19,  -51,  -55,  -63>> @@
    "Design"       :> << -59,  -51,  -85,  -93,  -71,  -66,  -79,  -71>> @@
    "Build"        :> << -99, -144, -118, -177, -237, -112, -218, -125>> @@
    "Test"         :> <<-237, -218, -190, -144, -303, -125, -336, -177>> @@
    "Deploy"       :> << -51,  -96,  -37,  -71,  -59,  -42,  -55,  -85>> @@
    "Post Go-Live" :> <<-177, -118, -144, -211,  -99, -112, -164, -144>>

CALIBRATED_HOURS == 17054

HoursScale == 2 * 100

AvoidanceScale == 2 * 20

(***************************************************************************)
(* Python helpers: list.index, sum over a sequence of keys, max.           *)
(***************************************************************************)
IndexOf(seq, x) == CHOOSE n \in 1..Len(seq) : seq[n] = x

RECURSIVE SumUpTo(_, _, _)
SumUpTo(f, seq, n) ==
    IF n = 0 THEN 0 ELSE SumUpTo(f, seq, n - 1) + f[seq[n]]

SumOver(f, seq) == SumUpTo(f, seq, Len(seq))

Max(a, b) == IF a >= b THEN a ELSE b

Abs(x) == IF x < 0 THEN -x ELSE x

\* the field matrix_data of the model instance, set by __init__
VARIABLE self_matrix_data

\* self.matrix_data.loc[initiative, phase]
matrix_data(initiative, phase) ==
    self_matrix_data[phase][IndexOf(INITIATIVE_FALLBACK, initiative)]

(***************************************************************************)
(* config.calculate_baseline_hours: total_hours * (pct / 100.0) for every  *)
(* key of the allocation.  Result in hours * HoursScale.                   *)
(***************************************************************************)
\* a plausible slip: every phase truncated to whole hours, int(total * pct / 100)
calculate_baseline_hours_whole(th, allocation) ==
    [phase \in DOMAIN allocation |->
        ((th * allocation[phase]) \div 100) * HoursScale]

calculate_baseline_hours(th, allocation) ==
    [phase \in DOMAIN allocation |->
        (th * allocation[phase] * HoursScale) \div 100]

(***************************************************************************)
(* N2SEfficiencyModel.apply_maturity_to_matrix.  The matrix is first       *)
(* scaled by total_hours / CALIBRATED_HOURS (a number of halves), then the *)
(* row of every initiative that is a key of maturity_levels is multiplied  *)
(* by maturity / 100; the row of an initiative that is not a key is left   *)
(* at its size-scaled value.  Result in hours * HoursScale.                *)
(***************************************************************************)
size_scale_factor(th) == (2 * th) \div CALIBRATED_HOURS

\* a plausible slip: `if maturity_levels.get(initiative):` skips a maturity of 0
apply_maturity_to_matrix_truthy(ml, th) ==
    [initiative \in Initiatives |-> [phase \in Phases |->
        LET scaled == matrix_data(initiative, phase) * size_scale_factor(th)
        IN  IF initiative \in DOMAIN ml /\ ml[initiative] # 0
            THEN scaled * ml[initiative]
            ELSE scaled * 100]]

\* a plausible slip: the matrix is not rescaled for the project size
apply_maturity_to_matrix_unscaled(ml, th) ==
    [initiative \in Initiatives |-> [phase \in Phases |->
        LET scaled == matrix_data(initiative, phase) * 2
        IN  IF initiative \in DOMAIN ml
            THEN scaled * ml[initiative]
            ELSE scaled * 100]]

apply_maturity_to_matrix(ml, th) ==
    [initiative \in Initiatives |-> [phase \in Phases |->
        LET scaled == matrix_data(initiative, phase) * size_scale_factor(th)
        IN  IF initiative \in DOMAIN ml
            THEN scaled * ml[initiative]
            ELSE scaled * 100]]

(***************************************************************************)
(* What apply_maturity_to_matrix leaves in self.matrix_data: the scaling   *)
(* works on self.matrix_data.copy(), so the instance keeps its matrix.     *)
(***************************************************************************)
\* a plausible slip: the matrix is scaled in place, without .copy()
matrix_data_after_scaling_inplace(matrix, th) ==
    [phase \in DOMAIN matrix |-> [n \in DOMAIN matrix[phase] |->
        (matrix[phase][n] * th) \div CALIBRATED_HOURS]]

matrix_data_after_scaling(matrix, th) == matrix

(***************************************************************************)
(* N2SEfficiencyModel.apply_maturity_levels: baseline hours, then for      *)
(* every phase the sum of the effective deltas of all initiatives added to *)
(* the baseline and floored at zero.                                       *)
(***************************************************************************)
total_delta(effective, phase) ==
    SumOver([initiative \in Initiatives |-> effective[initiative][phase]],
            INITIATIVE_FALLBACK)

\* a plausible slip: the zero floor is missing
modeled_from_unfloored(baseline, effective) ==
    [phase \in Phases |-> baseline[phase] + total_delta(effective, phase)]

\* a plausible slip: initiatives do not stack, only the largest saving counts
largest_saving(effective, phase) ==
    CHOOSE d \in {effective[i][phase] : i \in Initiatives} :
        \A i \in Initiatives : d <= effective[i][phase]

modeled_from_largest(baseline, effective) ==
    [phase \in Phases |-> Max(0, baseline[phase] + largest_saving(effective, phase))]

modeled_from(baseline, effective) ==
    [phase \in Phases |-> Max(0, baseline[phase] + total_delta(effective, phase))]

\* maturity_levels.get(initiative, 0)
maturity_or_zero(ml, initiative) ==
    IF initiative \in DOMAIN ml THEN ml[initiative] ELSE 0

\* the rows of savings_detail, one per initiative and phase with maturity > 0
\* and a negative delta: 'Maturity %' and 'Hours Saved' = abs(delta)
savings_detail(ml, effective) ==
    [cell \in {c \in Initiatives \X Phases :
                  /\ maturity_or_zero(ml, c[1]) > 0
                  /\ effective[c[1]][c[2]] < 0} |->
        [maturity    |-> maturity_or_zero(ml, cell[1]),
         hours_saved |-> Abs(effective[cell[1]][cell[2]])]]

apply_maturity_levels(ml, th, pa) ==
    LET baseline  == calculate_baseline_hours(th, pa)
        effective == apply_maturity_to_matrix(ml, th)
    IN  [baseline_hours   |-> baseline,
         modeled_hours    |-> modeled_from(baseline, effective),
         effective_matrix |-> effective,
         savings_df       |-> savings_detail(ml, effective)]

(***************************************************************************)
(* N2SEfficiencyModel.calculate_costs_and_savings.  A cost-avoidance       *)
(* config is a dict; None and the empty dict are both falsy and are both   *)
(* the empty function here.  dict.get supplies 1.0 for a missing key.      *)
(* baseline_cost, modeled_cost and savings in dollars * HoursScale,        *)
(* avoidance in dollars * HoursScale * AvoidanceScale.                     *)
(***************************************************************************)
NoConfig == [k \in {} |-> 0]

\* a plausible slip: `config.get('multiplier') or 1.0` turns 0.0 into 1.0
get_multiplier_falsy(config) ==
    IF "multiplier" \in DOMAIN config /\ config["multiplier"] # 0
    THEN config["multiplier"] ELSE 2

get_multiplier(config) ==
    IF "multiplier" \in DOMAIN config THEN config["multiplier"] ELSE 2

get_ongoing_factor(config) ==
    IF "ongoing_factor" \in DOMAIN config THEN config["ongoing_factor"] ELSE 20

DevPhases == SelectSeq(PHASE_ORDER, LAMBDA p : p # "Post Go-Live")

\* a plausible slip: the zero floor on the development savings is missing
phase_avoidance_unfloored(phase, savings, include, config) ==
    IF include /\ DOMAIN config # {}
    THEN IF phase = "Post Go-Live"
         THEN SumOver(savings, DevPhases) * get_ongoing_factor(config)
                  * get_multiplier(config)
         ELSE 0
    ELSE 0

phase_avoidance(phase, savings, include, config) ==
    IF include /\ DOMAIN config # {}
    THEN IF phase = "Post Go-Live"
         THEN LET dev_savings    == SumOver(savings, DevPhases)
                  base_avoidance == Max(0, dev_savings * get_ongoing_factor(config))
              IN  base_avoidance * get_multiplier(config)
         ELSE 0
    ELSE 0

\* a plausible change: no direct savings for the post-delivery phase
phase_savings_dev_only(phase, baseline_cost, modeled_cost) ==
    IF phase = "Post Go-Live" THEN 0 ELSE baseline_cost[phase] - modeled_cost[phase]

phase_savings(phase, baseline_cost, modeled_cost) ==
    baseline_cost[phase] - modeled_cost[phase]

calculate_costs_and_savings(baseline, modeled, rate, include, config) ==
    LET baseline_cost == [phase \in Phases |-> baseline[phase] * rate]
        modeled_cost  == [phase \in Phases |-> modeled[phase] * rate]
        savings       == [phase \in Phases |->
                             phase_savings(phase, baseline_cost, modeled_cost)]
    IN  [baseline_cost |-> baseline_cost,
         modeled_cost  |-> modeled_cost,
         savings       |-> savings,
         avoidance     |-> [phase \in Phases |->
                               phase_avoidance(phase, savings, include, config)]]

(***************************************************************************)
(* N2SEfficiencyModel.calculate_risk_adjusted_hours: a new dict with, for  *)
(* every phase of PHASE_ORDER, the modeled hours times the weight of the   *)
(* phase, or the modeled hours themselves when the phase has no weight.    *)
(* Result in hours * HoursScale * RiskScale.                               *)
(***************************************************************************)
\* a plausible slip: `risk_weights.get(phase, 0)` for a phase without weight
calculate_risk_adjusted_hours_default_zero(modeled, weights) ==
    [phase \in Phases |->
        IF phase \in DOMAIN weights
        THEN modeled[phase] * weights[phase]
        ELSE 0]

calculate_risk_adjusted_hours(modeled, weights) ==
    [phase \in Phases |->
        IF phase \in DOMAIN weights
        THEN modeled[phase] * weights[phase]
        ELSE modeled[phase] * RiskScale]

\* a plausible slip: the weighted hours are written back into the argument,
\* `modeled_hours[phase] *= risk_weights[phase]`
modeled_hours_after_risk_inplace(modeled, weights) ==
    [phase \in Phases |->
        IF phase \in DOMAIN weights
        THEN (modeled[phase] * weights[phase]) \div RiskScale
        ELSE modeled[phase]]

\* the dict passed as modeled_hours after the call: it is only read
modeled_hours_after_risk(modeled, weights) == modeled

(***************************************************************************)
(* N2SEfficiencyModel.get_kpi_summary.  sum(d.values()) adds the values of *)
(* a dict in key order.  total_hours_saved_pct is the exact quotient       *)
(* [n, d]; total_financial_benefit is in the unit of avoidance.            *)
(***************************************************************************)
sum_values(d) == SumOver(d, SelectSeq(PHASE_ORDER, LAMBDA p : p \in DOMAIN d))

\* a plausible slip: the avoidance is left out of total_financial_benefit and
\* the percentage is taken of the modeled total
get_kpi_summary_of_modeled(baseline, modeled, costs) ==
    LET total_baseline_hours == sum_values(baseline)
        total_modeled_hours  == sum_values(modeled)
        total_hours_saved    == total_baseline_hours - total_modeled_hours
        total_cost_savings   == sum_values(costs.savings)
        total_cost_avoidance == sum_values(costs.avoidance)
    IN  [total_baseline_hours    |-> total_baseline_hours,
         total_modeled_hours     |-> total_modeled_hours,
         total_hours_saved       |-> total_hours_saved,
         total_hours_saved_pct   |->
             IF total_modeled_hours > 0
             THEN [n |-> total_hours_saved * 100, d |-> total_modeled_hours]
             ELSE [n |-> 0, d |-> 1],
         total_baseline_cost     |-> sum_values(costs.baseline_cost),
         total_modeled_cost      |-> sum_values(costs.modeled_cost),
         total_cost_savings      |-> total_cost_savings,
         total_cost_avoidance    |-> total_cost_avoidance,
         total_financial_benefit |-> total_cost_savings * AvoidanceScale]

get_kpi_summary(baseline, modeled, costs) ==
    LET total_baseline_hours == sum_values(baseline)
        total_modeled_hours  == sum_values(modeled)
        total_hours_saved    == total_baseline_hours - total_modeled_hours
        total_cost_savings   == sum_values(costs.savings)
        total_cost_avoidance == sum_values(costs.avoidance)
    IN  [total_baseline_hours    |-> total_baseline_hours,
         total_modeled_hours     |-> total_modeled_hours,
         total_hours_saved       |-> total_hours_saved,
         total_hours_saved_pct   |->
             IF total_baseline_hours > 0
             THEN [n |-> total_hours_saved * 100, d |-> total_baseline_hours]
             ELSE [n |-> 0, d |-> 1],
         total_baseline_cost     |-> sum_values(costs.baseline_cost),
         total_modeled_cost      |-> sum_values(costs.modeled_cost),
         total_cost_savings      |-> total_cost_savings,
         total_cost_avoidance    |-> total_cost_avoidance,
         total_financial_benefit |->
             total_cost_savings * AvoidanceScale + total_cost_avoidance]

(***************************************************************************)
(* Role and category configuration (src/config.py).                        *)
(***************************************************************************)
ROLE_ORDER ==
    <<"Project Manager",
      "Solutions Architect",
      "Technical Architect",
      "Integration Lead",
      "Platform Lead",
      "Student AR Consultant",
      "Fin Aid Consultant",
      "Finance Consultant",
      "HR Consultant",
      "Integration Engineer",
      "Degree Works Consultant",
      "Degree Works Scribe",
      "Reporting Consultant",
      "Experience Consultant",
      "Change Management",
      "Other & Contingency">>

Roles == {ROLE_ORDER[n] : n \in 1..Len(ROLE_ORDER)}

\* a dict literal with one value per phase, per role
PhaseVector(values) == [p \in Phases |-> values[IndexOf(PHASE_ORDER, p)]]

RoleVector(values) == [r \in Roles |-> values[IndexOf(ROLE_ORDER, r)]]

ROLE_DEFINITIONS ==
    "Project Manager"          :> [type |-> "Pod"   , base_hours |-> 1600, hourly_rate |-> 135] @@
    "Solutions Architect"      :> [type |-> "Pod"   , base_hours |->  780, hourly_rate |-> 155] @@
    "Technical Architect"      :> [type |-> "Pod"   , base_hours |->  468, hourly_rate |-> 145] @@
    "Integration Lead"         :> [type |-> "Pod"   , base_hours |->  936, hourly_rate |-> 140] @@
    "Platform Lead"            :> [type |-> "Pod"   , base_hours |->  468, hourly_rate |-> 145] @@
    "Student AR Consultant"    :> [type |-> "Pod"   , base_hours |->  936, hourly_rate |-> 125] @@
    "Fin Aid Consultant"       :> [type |-> "Pooled", base_hours |->  137, hourly_rate |-> 125] @@
    "Finance Consultant"       :> [type |-> "Pooled", base_hours |->  137, hourly_rate |-> 125] @@
    "HR Consultant"            :> [type |-> "Pooled", base_hours |->  137, hourly_rate |-> 125] @@
    "Integration Engineer"     :> [type |-> "Pooled", base_hours |->  951, hourly_rate |-> 110] @@
    "Degree Works Consultant"  :> [type |-> "Pooled", base_hours |->   92, hourly_rate |-> 110] @@
    "Degree Works Scribe"      :> [type |-> "Pooled", base_hours |->   46, hourly_rate |-> 95] @@
    "Reporting Consultant"     :> [type |-> "Pooled", base_hours |->  166, hourly_rate |-> 115] @@
    "Experience Consultant"    :> [type |-> "Pooled", base_hours |->  166, hourly_rate |-> 120] @@
    "Change Management"        :> [type |-> "Pooled", base_hours |->  320, hourly_rate |-> 115] @@
    "Other & Contingency"      :> [type |-> "Pooled", base_hours |->  100, hourly_rate |-> 100]

\* a plausible slip: a typing error in one percentage (Build 40 entered as 30)
ROLE_PHASE_ALLOCATION_mistyped ==
    "Project Manager"          :> PhaseVector(<<15, 20, 10, 15, 15, 15, 10>>) @@
    "Solutions Architect"      :> PhaseVector(<<20, 15, 25, 15, 10, 10,  5>>) @@
    "Technical Architect"      :> PhaseVector(<<10, 10, 25, 30, 15,  5,  5>>) @@
    "Integration Lead"         :> PhaseVector(<<10, 15, 20, 25, 20,  5,  5>>) @@
    "Platform Lead"            :> PhaseVector(<<10, 10, 25, 30, 15,  5,  5>>) @@
    "Student AR Consultant"    :> PhaseVector(<<15, 10, 20, 25, 20,  5,  5>>) @@
    "Fin Aid Consultant"       :> PhaseVector(<<20, 10, 15, 30, 20,  3,  2>>) @@
    "Finance Consultant"       :> PhaseVector(<<20, 10, 15, 30, 20,  3,  2>>) @@
    "HR Consultant"            :> PhaseVector(<<20, 10, 15, 30, 20,  3,  2>>) @@
    "Integration Engineer"     :> PhaseVector(<< 5,  5, 15, 30, 25,  5,  5>>) @@
    "Degree Works Consultant"  :> PhaseVector(<<10, 10, 20, 35, 20,  3,  2>>) @@
    "Degree Works Scribe"      :> PhaseVector(<< 5,  5, 15, 50, 20,  3,  2>>) @@
    "Reporting Consultant"     :> PhaseVector(<<10, 10, 20, 35, 20,  3,  2>>) @@
    "Experience Consultant"    :> PhaseVector(<<15, 10, 25, 30, 15,  3,  2>>) @@
    "Change Management"        :> PhaseVector(<<20, 15, 10, 10, 10, 20, 15>>) @@
    "Other & Contingency"      :> PhaseVector(<<15, 15, 15, 20, 15, 10, 10>>)

ROLE_PHASE_ALLOCATION ==
    "Project Manager"          :> PhaseVector(<<15, 20, 10, 15, 15, 15, 10>>) @@
    "Solutions Architect"      :> PhaseVector(<<20, 15, 25, 15, 10, 10,  5>>) @@
    "Technical Architect"      :> PhaseVector(<<10, 10, 25, 30, 15,  5,  5>>) @@
    "Integration Lead"         :> PhaseVector(<<10, 15, 20, 25, 20,  5,  5>>) @@
    "Platform Lead"            :> PhaseVector(<<10, 10, 25, 30, 15,  5,  5>>) @@
    "Student AR Consultant"    :> PhaseVector(<<15, 10, 20, 25, 20,  5,  5>>) @@
    "Fin Aid Consultant"       :> PhaseVector(<<20, 10, 15, 30, 20,  3,  2>>) @@
    "Finance Consultant"       :> PhaseVector(<<20, 10, 15, 30, 20,  3,  2>>) @@
    "HR Consultant"            :> PhaseVector(<<20, 10, 15, 30, 20,  3,  2>>) @@
    "Integration Engineer"     :> PhaseVector(<< 5,  5, 15, 40, 25,  5,  5>>) @@
    "Degree Works Consultant"  :> PhaseVector(<<10, 10, 20, 35, 20,  3,  2>>) @@
    "Degree Works Scribe"      :> PhaseVector(<< 5,  5, 15, 50, 20,  3,  2>>) @@
    "Reporting Consultant"     :> PhaseVector(<<10, 10, 20, 35, 20,  3,  2>>) @@
    "Experience Consultant"    :> PhaseVector(<<15, 10, 25, 30, 15,  3,  2>>) @@
    "Change Management"        :> PhaseVector(<<20, 15, 10, 10, 10, 20, 15>>) @@
    "Other & Contingency"      :> PhaseVector(<<15, 15, 15, 20, 15, 10, 10>>)

\* multipliers in hundredths, one entry per role in the order of ROLE_ORDER
ROLE_INITIATIVE_MULTIPLIERS ==
    "Automated Testing"   :> RoleVector(<< 90,  95, 105, 105, 105, 100, 100, 100,
                                       100, 110, 100, 120, 105, 108,  75, 100>>) @@
    "AI/Automation"       :> RoleVector(<<105, 102, 108, 105, 108, 100, 100, 100,
                                       100, 110, 100, 115, 108, 105,  85, 100>>) @@
    "DevSecOps"           :> RoleVector(<< 95, 102, 108, 105, 108, 100, 100, 100,
                                       100, 112, 100,  98, 102, 105,  80, 100>>) @@
    "Reusable Components" :> RoleVector(<< 95, 105, 108, 105, 108, 100, 100, 100,
                                       100, 110, 100, 100, 108, 112,  85, 100>>) @@
    "Knowledge Base"      :> RoleVector(<<100, 103, 103, 102, 103, 100, 100, 100,
                                       100, 105, 105, 108, 105, 103, 110, 100>>) @@
    "Agile Practices"     :> RoleVector(<<108, 102, 100, 102, 100, 100, 100, 100,
                                       100, 102, 100,  98, 100, 102, 105, 100>>) @@
    "Agile + DevOps"      :> RoleVector(<<110, 103, 105, 105, 105, 100, 100, 100,
                                       100, 108, 100,  98, 102, 103, 108, 100>>)

\* a plausible slip: an initiative of the catalog has no entry
SAVINGS_CATEGORY_MAPPING_without_EDCC ==
    "Automated Testing"        :> ("AI & Automation" :> 55 @@ "N2S Methodology & Controls" :> 30 @@ "OOtB Config" :> 15) @@
    "AI/Automation"            :> ("AI & Automation" :> 70 @@ "N2S Methodology & Controls" :> 20 @@ "OOtB Config" :> 10) @@
    "Modernization Studio"     :> ("OOtB Config" :> 50 @@ "N2S Methodology & Controls" :> 35 @@ "AI & Automation" :> 15) @@
    "N2S CARM"                 :> ("N2S Methodology & Controls" :> 65 @@ "OOtB Config" :> 35) @@
    "Preconfigured Envs"       :> ("OOtB Config" :> 65 @@ "AI & Automation" :> 22 @@ "N2S Methodology & Controls" :> 13) @@
    "Integration Code Reuse"   :> ("OOtB Config" :> 60 @@ "N2S Methodology & Controls" :> 27 @@ "AI & Automation" :> 13) @@
    "DevSecOps Pipeline"       :> ("N2S Methodology & Controls" :> 55 @@ "AI & Automation" :> 45) @@
    "Cloud-Native Patterns"    :> ("OOtB Config" :> 45 @@ "N2S Methodology & Controls" :> 35 @@ "AI & Automation" :> 20) @@
    "Agile Methodology"        :> ("N2S Methodology & Controls" :> 75 @@ "AI & Automation" :> 15 @@ "OOtB Config" :> 10) @@
    "Agile + DevOps Practices" :> ("N2S Methodology & Controls" :> 70 @@ "AI & Automation" :> 20 @@ "OOtB Config" :> 10)

\* category weights in hundredths
SAVINGS_CATEGORY_MAPPING ==
    "Automated Testing"        :> ("AI & Automation" :> 55 @@ "N2S Methodology & Controls" :> 30 @@ "OOtB Config" :> 15) @@
    "AI/Automation"            :> ("AI & Automation" :> 70 @@ "N2S Methodology & Controls" :> 20 @@ "OOtB Config" :> 10) @@
    "Modernization Studio"     :> ("OOtB Config" :> 50 @@ "N2S Methodology & Controls" :> 35 @@ "AI & Automation" :> 15) @@
    "N2S CARM"                 :> ("N2S Methodology & Controls" :> 65 @@ "OOtB Config" :> 35) @@
    "EDCC"                     :> ("N2S Methodology & Controls" :> 80 @@ "AI & Automation" :> 12 @@ "OOtB Config" :> 8) @@
    "Preconfigured Envs"       :> ("OOtB Config" :> 65 @@ "AI & Automation" :> 22 @@ "N2S Methodology & Controls" :> 13) @@
    "Integration Code Reuse"   :> ("OOtB Config" :> 60 @@ "N2S Methodology & Controls" :> 27 @@ "AI & Automation" :> 13) @@
    "DevSecOps Pipeline"       :> ("N2S Methodology & Controls" :> 55 @@ "AI & Automation" :> 45) @@
    "Cloud-Native Patterns"    :> ("OOtB Config" :> 45 @@ "N2S Methodology & Controls" :> 35 @@ "AI & Automation" :> 20) @@
    "Agile Methodology"        :> ("N2S Methodology & Controls" :> 75 @@ "AI & Automation" :> 15 @@ "OOtB Config" :> 10) @@
    "Agile + DevOps Practices" :> ("N2S Methodology & Controls" :> 70 @@ "AI & Automation" :> 20 @@ "OOtB Config" :> 10)

SAVINGS_CATEGORIES ==
    <<"OOtB Config", "N2S Methodology & Controls", "AI & Automation">>

Categories == {SAVINGS_CATEGORIES[n] : n \in 1..Len(SAVINGS_CATEGORIES)}

(***************************************************************************)
(* Exact quotients for the role and category functions: a float is the     *)
(* rational [n, d] in lowest terms with d > 0.                             *)
(***************************************************************************)
RECURSIVE GCD(_, _)
GCD(a, b) == IF b = 0 THEN a ELSE GCD(b, a % b)

Rat(n, d) ==
    LET g == GCD(Abs(n), Abs(d))
    IN  IF d < 0 THEN [n |-> (-n) \div g, d |-> (-d) \div g]
                 ELSE [n |-> n \div g, d |-> d \div g]

RInt(k) == [n |-> k, d |-> 1]

RAdd(a, b) ==
    LET l == (a.d \div GCD(a.d, b.d)) * b.d
    IN  Rat(a.n * (l \div a.d) + b.n * (l \div b.d), l)

RSub(a, b) == RAdd(a, [n |-> -b.n, d |-> b.d])

RMul(a, b) ==
    LET g1 == GCD(Abs(a.n), b.d)
        g2 == GCD(Abs(b.n), a.d)
    IN  Rat((a.n \div g1) * (b.n \div g2), (a.d \div g2) * (b.d \div g1))

RECURSIVE RSumUpTo(_, _, _)
RSumUpTo(f, seq, n) ==
    IF n = 0 THEN RInt(0) ELSE RAdd(RSumUpTo(f, seq, n - 1), f[seq[n]])

RSumOver(f, seq) == RSumUpTo(f, seq, Len(seq))

(***************************************************************************)
(* model.calculate_role_based_hours.  Role weights are in hundredths of an *)
(* hour (base_hours * pct); phase_hours is a dict of whole hours.  A       *)
(* multiplier dict that is None or empty is falsy.                         *)
(***************************************************************************)
\* table is config.ROLE_PHASE_ALLOCATION as the function imports it when it
\* is called; ROLE_PHASE_ALLOCATION.get(role_name, {})
role_allocation(table, role) ==
    IF role \in DOMAIN table THEN table[role] ELSE [p \in {} |-> 0]

role_phase_weight(table, role, phase) ==
    ROLE_DEFINITIONS[role].base_hours * role_allocation(table, role)[phase]

\* a plausible slip: the total weight of a phase ignores the phase percentages
phase_total_weights_unweighted(table) ==
    [phase \in Phases |->
        SumOver([r \in Roles |-> ROLE_DEFINITIONS[r].base_hours * 100], ROLE_ORDER)]

phase_total_weights(table) ==
    [phase \in Phases |->
        SumOver([r \in Roles |->
                    IF phase \in DOMAIN role_allocation(table, r)
                    THEN role_phase_weight(table, r, phase) ELSE 0],
                ROLE_ORDER)]

(***************************************************************************)
(* The allocation tables the function is called with: the table of         *)
(* config.py and two edited ones.  The weights of these tables are         *)
(* tabulated once.                                                         *)
(***************************************************************************)
\* an edited allocation table in which no role works in the Deploy phase
NoDeployAllocation ==
    [r \in Roles |-> [p \in Phases |->
        IF p = "Deploy" THEN 0 ELSE ROLE_PHASE_ALLOCATION[r][p]]]

\* an edited allocation table without an entry for the last role
UnlistedRoleAllocation ==
    [r \in Roles \ {"Other & Contingency"} |-> ROLE_PHASE_ALLOCATION[r]]

RolePhaseAllocationInputs ==
    {ROLE_PHASE_ALLOCATION, NoDeployAllocation, UnlistedRoleAllocation}

phase_total_weights_by_table ==
    [table \in RolePhaseAllocationInputs |-> phase_total_weights(table)]

role_multiplier(role, include_sv, multipliers) ==
    IF include_sv /\ DOMAIN multipliers # {} /\ role \in DOMAIN multipliers
    THEN multipliers[role] ELSE RInt(1)

\* a plausible slip: the share is multiplied by the multiplier itself
role_phase_hours_times_multiplier(table, weights, role, phase, ph, include_sv, multipliers) ==
    IF phase \in DOMAIN ph /\ phase \in DOMAIN role_allocation(table, role)
    THEN IF weights[phase] > 0
         THEN LET role_share == Rat(role_phase_weight(table, role, phase),
                                    weights[phase])
                  m == role_multiplier(role, include_sv, multipliers)
              IN  RMul(RMul(RInt(ph[phase]), role_share), m)
         ELSE RInt(0)
    ELSE RInt(0)

\* a plausible change: the multiplier adjustment is dropped
role_phase_hours_proportional(table, weights, role, phase, ph, include_sv, multipliers) ==
    IF phase \in DOMAIN ph /\ phase \in DOMAIN role_allocation(table, role)
    THEN IF weights[phase] > 0
         THEN RMul(RInt(ph[phase]),
                   Rat(role_phase_weight(table, role, phase), weights[phase]))
         ELSE RInt(0)
    ELSE RInt(0)

\* a plausible slip: the guard on the total weight of the phase is missing;
\* the division by zero yields no number, written here as the quotient 1/0
role_phase_hours_unguarded(table, weights, role, phase, ph, include_sv, multipliers) ==
    IF phase \in DOMAIN ph /\ phase \in DOMAIN role_allocation(table, role)
    THEN IF weights[phase] > 0
         THEN LET role_share == Rat(role_phase_weight(table, role, phase),
                                    weights[phase])
                  m == role_multiplier(role, include_sv, multipliers)
              IN  IF include_sv /\ m # RInt(1)
                  THEN RMul(RMul(RInt(ph[phase]), role_share), RSub(RInt(2), m))
                  ELSE RMul(RInt(ph[phase]), role_share)
         ELSE [n |-> 1, d |-> 0]
    ELSE RInt(0)

\* weights is the dict phase_total_weights the function has built
role_phase_hours(table, weights, role, phase, ph, include_sv, multipliers) ==
    IF phase \in DOMAIN ph /\ phase \in DOMAIN role_allocation(table, role)
    THEN IF weights[phase] > 0
         THEN LET role_share == Rat(role_phase_weight(table, role, phase),
                                    weights[phase])
                  m == role_multiplier(role, include_sv, multipliers)
              IN  IF include_sv /\ m # RInt(1)
                  THEN RMul(RMul(RInt(ph[phase]), role_share), RSub(RInt(2), m))
                  ELSE RMul(RInt(ph[phase]), role_share)
         ELSE RInt(0)
    ELSE RInt(0)

calculate_role_based_hours(table, ph, include_sv, multipliers) ==
    LET weights == phase_total_weights_by_table[table]
    IN  [role \in Roles |-> [phase \in Phases |->
            role_phase_hours(table, weights, role, phase, ph, include_sv,
                             multipliers)]]

(***************************************************************************)
(* model.calculate_role_initiative_multipliers.  The mapping argument is   *)
(* the dict the loop uses: the default below when the caller passes None.  *)
(* weight = maturity / 100 is kept as the integer maturity, and the        *)
(* multipliers in hundredths, so the average is                            *)
(* weighted_multiplier / (100 * total_weight).                             *)
(***************************************************************************)
default_initiative_mapping ==
    "Automated Testing"        :> "Automated Testing" @@
    "AI/Automation"            :> "AI/Automation" @@
    "DevSecOps Pipeline"       :> "DevSecOps" @@
    "Modernization Studio"     :> "Reusable Components" @@
    "Cloud-Native Patterns"    :> "Reusable Components" @@
    "N2S CARM"                 :> "Knowledge Base" @@
    "Agile Methodology"        :> "Agile Practices" @@
    "Agile + DevOps Practices" :> "Agile + DevOps" @@
    "EDCC"                     :> "Knowledge Base" @@
    "Preconfigured Envs"       :> "Reusable Components" @@
    "Integration Code Reuse"   :> "Reusable Components"

\* maturity_levels.items(): the keys of the dict, in catalog order
maturity_keys(ml) == SelectSeq(INITIATIVE_FALLBACK, LAMBDA i : i \in DOMAIN ml)

multiplier_applies(ml, mapping, initiative, role) ==
    /\ ml[initiative] > 0
    /\ initiative \in DOMAIN mapping
    /\ mapping[initiative] \in DOMAIN ROLE_INITIATIVE_MULTIPLIERS
    /\ role \in DOMAIN ROLE_INITIATIVE_MULTIPLIERS[mapping[initiative]]

\* a plausible slip: a plain average over the active initiatives, not
\* weighted by maturity
calculate_role_initiative_multipliers_plain(ml, mapping) ==
    [role \in Roles |->
        LET keys == maturity_keys(ml)
            weighted_multiplier ==
                SumOver([i \in DOMAIN ml |->
                            IF multiplier_applies(ml, mapping, i, role)
                            THEN ROLE_INITIATIVE_MULTIPLIERS[mapping[i]][role]
                            ELSE 0], keys)
            total_weight ==
                SumOver([i \in DOMAIN ml |->
                            IF multiplier_applies(ml, mapping, i, role)
                            THEN 1 ELSE 0], keys)
        IN  IF total_weight > 0
            THEN Rat(weighted_multiplier, 100 * total_weight)
            ELSE RInt(1)]

\* a plausible slip: the weighted sum is not divided by the total weight
calculate_role_initiative_multipliers_unnormalised(ml, mapping) ==
    [role \in Roles |->
        LET keys == maturity_keys(ml)
            weighted_multiplier ==
                SumOver([i \in DOMAIN ml |->
                            IF multiplier_applies(ml, mapping, i, role)
                            THEN ROLE_INITIATIVE_MULTIPLIERS[mapping[i]][role]
                                     * ml[i]
                            ELSE 0], keys)
            total_weight ==
                SumOver([i \in DOMAIN ml |->
                            IF multiplier_applies(ml, mapping, i, role)
                            THEN ml[i] ELSE 0], keys)
        IN  IF total_weight > 0
            THEN Rat(weighted_multiplier, 100 * 100)
            ELSE RInt(1)]

calculate_role_initiative_multipliers(ml, mapping) ==
    [role \in Roles |->
        LET keys == maturity_keys(ml)
            weighted_multiplier ==
                SumOver([i \in DOMAIN ml |->
                            IF multiplier_applies(ml, mapping, i, role)
                            THEN ROLE_INITIATIVE_MULTIPLIERS[mapping[i]][role]
                                     * ml[i]
                            ELSE 0], keys)
            total_weight ==
                SumOver([i \in DOMAIN ml |->
                            IF multiplier_applies(ml, mapping, i, role)
                            THEN ml[i] ELSE 0], keys)
        IN  IF total_weight > 0
            THEN Rat(weighted_multiplier, 100 * total_weight)
            ELSE RInt(1)]

(***************************************************************************)
(* model.calculate_savings_by_category.  The two role-hour tables are      *)
(* indexed by role and phase; the result is indexed by role and category.  *)
(***************************************************************************)
role_savings(brh, mrh, role) ==
    RSub(RSumOver(brh[role], PHASE_ORDER), RSumOver(mrh[role], PHASE_ORDER))

\* a plausible slip: the initiative weight is maturity / 100, not its share
initiative_weight_percent(ml, initiative, total_maturity_weight) ==
    Rat(ml[initiative], 100)

initiative_weight(ml, initiative, total_maturity_weight) ==
    Rat(ml[initiative], total_maturity_weight)

RECURSIVE category_total(_, _, _, _, _, _)
category_total(total_saved, ml, total_maturity_weight, category, keys, n) ==
    IF n = 0 THEN RInt(0)
    ELSE LET initiative == keys[n]
             rest == category_total(total_saved, ml, total_maturity_weight,
                                    category, keys, n - 1)
         IN  IF /\ ml[initiative] > 0
                /\ initiative \in DOMAIN SAVINGS_CATEGORY_MAPPING
                /\ category \in DOMAIN SAVINGS_CATEGORY_MAPPING[initiative]
             THEN RAdd(rest,
                       RMul(RMul(total_saved,
                                 initiative_weight(ml, initiative,
                                                   total_maturity_weight)),
                            Rat(SAVINGS_CATEGORY_MAPPING[initiative][category], 100)))
             ELSE rest

calculate_savings_by_category(brh, mrh, ml) ==
    LET keys == maturity_keys(ml)
        total_maturity_weight == SumOver(ml, keys)
    IN  [role \in DOMAIN brh |->
            LET total_saved == role_savings(brh, mrh, role)
            IN  [category \in Categories |->
                    IF total_maturity_weight > 0
                    THEN category_total(total_saved, ml, total_maturity_weight,
                                        category, keys, Len(keys))
                    ELSE RInt(0)]]

(***************************************************************************)
(* N2SEfficiencyModel.generate_initiative_impact_table.  The table takes   *)
(* total_hours = sum(baseline_hours.values()), which is no multiple of     *)
(* CALIBRATED_HOURS / 2 when the allocation does not total 100, and applies *)
(* the matrix again; its hours and dollars are exact quotients [n, d].     *)
(* baseline is in hours * HoursScale, the preset in halves and twentieths. *)
(***************************************************************************)
RNeg(a) == [n |-> -a.n, d |-> a.d]

RAbs(a) == [n |-> Abs(a.n), d |-> a.d]

RLess(a, b) == RSub(a, b).n < 0

\* apply_maturity_to_matrix(maturity_levels, total_hours).loc[initiative]
initiative_row(ml, baseline, initiative) ==
    LET size_scale == Rat(sum_values(baseline), CALIBRATED_HOURS * HoursScale)
    IN  [phase \in Phases |->
            IF initiative \in DOMAIN ml
            THEN RMul(size_scale,
                      Rat(matrix_data(initiative, phase) * ml[initiative], 100))
            ELSE RMul(size_scale, RInt(matrix_data(initiative, phase)))]

\* one row of impact_data
impact_row(ml, baseline, initiative, rate, include, config) ==
    LET row == initiative_row(ml, baseline, initiative)
        dev_hours_saved == RAbs(RSumOver(row, DevPhases))
        post_golive_hours_saved == RAbs(row["Post Go-Live"])
        dev_cost_impact == RNeg(RMul(dev_hours_saved, RInt(rate)))
        avoidance_value ==
            IF include /\ DOMAIN config # {} /\ dev_hours_saved.n > 0
            THEN RMul(RMul(dev_hours_saved, RInt(rate)),
                      Rat(get_ongoing_factor(config) * get_multiplier(config),
                          AvoidanceScale))
            ELSE RInt(0)
        post_golive_cost_impact ==
            RSub(RNeg(RMul(post_golive_hours_saved, RInt(rate))), avoidance_value)
    IN  [initiative              |-> initiative,
         maturity_pct            |-> ml[initiative],
         total_hours_saved       |-> RAdd(dev_hours_saved, post_golive_hours_saved),
         development_hours       |-> dev_hours_saved,
         post_golive_hours       |-> post_golive_hours_saved,
         development_cost_impact |-> dev_cost_impact,
         post_golive_cost_impact |-> post_golive_cost_impact,
         total_financial_impact  |-> RAdd(dev_cost_impact, post_golive_cost_impact)]

\* df.sort_values('Total Financial Impact', ascending=True); rows with equal
\* impact keep the order of impact_data
insert_by_impact(row, sorted) ==
    LET k == Cardinality({j \in 1..Len(sorted) :
                 ~RLess(row.total_financial_impact,
                        sorted[j].total_financial_impact)})
    IN  SubSeq(sorted, 1, k) \o <<row>> \o SubSeq(sorted, k + 1, Len(sorted))

RECURSIVE sort_by_impact(_, _)
sort_by_impact(rows, n) ==
    IF n = 0 THEN <<>>
    ELSE insert_by_impact(rows[n], sort_by_impact(rows, n - 1))

\* modeled_hours is a parameter the function does not use
generate_initiative_impact_table(baseline, modeled, ml, rate, include, config) ==
    LET listed == SelectSeq(maturity_keys(ml), LAMBDA i : ml[i] > 0)
        impact_data == [n \in 1..Len(listed) |->
                           impact_row(ml, baseline, listed[n], rate, include, config)]
    IN  sort_by_impact(impact_data, Len(listed))

(***************************************************************************)
(* config.validate_scenario_results: is_valid and the warning.  The        *)
(* reduction (baseline_cost - modeled_cost) / baseline_cost is compared    *)
(* with MAX_TOTAL_COST_REDUCTION, in hundredths.                           *)
(***************************************************************************)
MAX_TOTAL_COST_REDUCTION == 50

\* a plausible slip: the reduction is compared as a percentage with the limit
\* that is a fraction, `cost_reduction * 100 > MAX_TOTAL_COST_REDUCTION`
validate_scenario_results_percent(baseline_cost, modeled_cost) ==
    IF modeled_cost >= baseline_cost
    THEN [is_valid |-> TRUE, warning |-> ""]
    ELSE IF (baseline_cost - modeled_cost) * 100
                > (MAX_TOTAL_COST_REDUCTION * baseline_cost) \div 100
         THEN [is_valid |-> FALSE, warning |-> "exceeds maximum credible limit"]
         ELSE [is_valid |-> TRUE, warning |-> ""]

validate_scenario_results(baseline_cost, modeled_cost) ==
    IF modeled_cost >= baseline_cost
    THEN [is_valid |-> TRUE, warning |-> ""]
    ELSE IF (baseline_cost - modeled_cost) * 100
                > MAX_TOTAL_COST_REDUCTION * baseline_cost
         THEN [is_valid |-> FALSE, warning |-> "exceeds maximum credible limit"]
         ELSE [is_valid |-> TRUE, warning |-> ""]

(***************************************************************************)
(* The maturity assessment of config.py: assess_current_maturity,          *)
(* calculate_target_feasibility and _generate_recommendations.  Savings    *)
(* percentages are stored times SavingsScale (in tenths of a percent),     *)
(* question weights in hundredths, scores in hundredths.                   *)
(***************************************************************************)
SavingsScale == 10

\* savings_potential_range and typical_savings of the five maturity levels
MATURITY_LEVELS ==
    <<[name |-> "Ad-hoc/Manual", savings_potential_range |-> <<50, 80>>,
       typical_savings |-> 65],
      [name |-> "Repeatable",    savings_potential_range |-> <<80, 120>>,
       typical_savings |-> 100],
      [name |-> "Defined",       savings_potential_range |-> <<120, 180>>,
       typical_savings |-> 150],
      [name |-> "Managed",       savings_potential_range |-> <<180, 250>>,
       typical_savings |-> 215],
      [name |-> "Optimizing",    savings_potential_range |-> <<250, 300>>,
       typical_savings |-> 275]>>

AUTOMATION_ASSESSMENT ==
    "test_automation_coverage" :>
        [type |-> "slider", weight |-> 30, options |-> <<>>] @@
    "ci_cd_maturity" :>
        [type |-> "selectbox", weight |-> 25,
         options |-> <<"Manual deployments", "Basic build automation",
                       "Automated testing in pipeline",
                       "Full deployment automation", "Self-healing pipelines">>] @@
    "code_reuse_level" :>
        [type |-> "slider", weight |-> 20, options |-> <<>>] @@
    "environment_automation" :>
        [type |-> "selectbox", weight |-> 15,
         options |-> <<"Manual environment setup", "Some scripted setup",
                       "Standardized environments", "Infrastructure as Code",
                       "Fully automated and optimized">>] @@
    "documentation_automation" :>
        [type |-> "selectbox", weight |-> 10,
         options |-> <<"Manual documentation", "Template-based documentation",
                       "Some automated generation",
                       "Mostly automated documentation",
                       "AI-assisted and self-updating">>]

\* the questions in the order of the dict
ASSESSMENT_ORDER ==
    <<"test_automation_coverage", "ci_cd_maturity", "code_reuse_level",
      "environment_automation", "documentation_automation">>

Min(a, b) == IF a <= b THEN a ELSE b

Contains(seq, x) == \E n \in 1..Len(seq) : seq[n] = x

\* options.index(response), counted from 0
option_index(question, response) ==
    IndexOf(AUTOMATION_ASSESSMENT[question].options, response) - 1

\* the keys of the responses that are questions, in the order of the dict
answered_questions(responses) ==
    SelectSeq(ASSESSMENT_ORDER, LAMBDA q : q \in DOMAIN responses)

\* the score of one answer on the 0-1 scale, in hundredths
question_score(question, response) ==
    IF AUTOMATION_ASSESSMENT[question].type = "slider"
    THEN response
    ELSE LET options == AUTOMATION_ASSESSMENT[question].options
         IN  IF Contains(options, response)
             THEN IF Len(options) - 1 > 0
                  THEN (option_index(question, response) * 100)
                           \div (Len(options) - 1)
                  ELSE 0
             ELSE 0

_identify_improvement_areas(responses) ==
    SelectSeq(answered_questions(responses),
              LAMBDA q :
                  IF AUTOMATION_ASSESSMENT[q].type = "slider"
                  THEN responses[q] < 50
                  ELSE /\ Contains(AUTOMATION_ASSESSMENT[q].options, responses[q])
                       /\ option_index(q, responses[q]) < 2)

assess_current_maturity(responses) ==
    LET keys == answered_questions(responses)
        total_score ==
            SumOver([q \in DOMAIN AUTOMATION_ASSESSMENT |->
                        IF q \in DOMAIN responses
                        THEN question_score(q, responses[q])
                                 * AUTOMATION_ASSESSMENT[q].weight
                        ELSE 0], keys)
        max_score ==
            SumOver([q \in DOMAIN AUTOMATION_ASSESSMENT |->
                        AUTOMATION_ASSESSMENT[q].weight], keys)
        normalized_score ==
            IF max_score > 0 THEN Rat(total_score, 100 * max_score) ELSE RInt(0)
        maturity_level ==
            Min(5, Max(1, (normalized_score.n * 4) \div normalized_score.d + 1))
        level_info == MATURITY_LEVELS[maturity_level]
        min_savings == level_info.savings_potential_range[1]
        max_savings == level_info.savings_potential_range[2]
        test_auto_boost ==
            (IF "test_automation_coverage" \in DOMAIN responses
             THEN responses["test_automation_coverage"] ELSE 30) - 30
        cicd_response ==
            IF "ci_cd_maturity" \in DOMAIN responses
            THEN responses["ci_cd_maturity"] ELSE "Basic build automation"
        cicd_index ==
            IF Contains(AUTOMATION_ASSESSMENT["ci_cd_maturity"].options,
                        cicd_response)
            THEN option_index("ci_cd_maturity", cicd_response) ELSE 1
        cicd_boost == (cicd_index - 1) * (SavingsScale \div 2)
        adjusted_savings ==
            level_info.typical_savings + test_auto_boost + cicd_boost
        realistic_max == Min(max_savings, Max(min_savings, adjusted_savings))
    IN  [maturity_level            |-> maturity_level,
         maturity_name             |-> level_info.name,
         current_savings_potential |-> realistic_max,
         savings_range             |-> <<min_savings, max_savings>>,
         assessment_score          |-> normalized_score,
         improvement_areas         |-> _identify_improvement_areas(responses)]

_generate_recommendations(current, target_level) ==
    IF target_level <= current.maturity_level
    THEN <<"Your current maturity level is sufficient for this target">>
    ELSE (IF Contains(current.improvement_areas, "test_automation_coverage")
          THEN <<"Increase automated test coverage to 60%+ (current focus area)">>
          ELSE <<>>)
         \o (IF Contains(current.improvement_areas, "ci_cd_maturity")
             THEN <<"Implement full CI/CD pipeline with automated deployments">>
             ELSE <<>>)
         \o (IF Contains(current.improvement_areas, "code_reuse_level")
             THEN <<"Develop reusable component library (target 40%+ reuse)">>
             ELSE <<>>)
         \o (IF target_level >= 4
             THEN <<"Implement Infrastructure as Code for environment management",
                    "Add comprehensive monitoring and measurement systems">>
             ELSE <<>>)
         \o (IF target_level >= 5
             THEN <<"Focus on continuous optimization and AI-assisted processes">>
             ELSE <<>>)

\* target in percent * SavingsScale; 1.5 percent of boost per initiative
calculate_target_feasibility(current, target, selected) ==
    LET current_potential == current.current_savings_potential
        initiative_boost == Len(selected) * ((3 * SavingsScale) \div 2)
        total_potential == current_potential + initiative_boost
        feasible == target <= total_potential
        reaching == {level \in 1..5 :
                        target <= MATURITY_LEVELS[level].savings_potential_range[2]
                                      + initiative_boost}
        required_level ==
            IF ~feasible
            THEN IF reaching = {} THEN 5
                 ELSE CHOOSE level \in reaching : \A l \in reaching : level <= l
            ELSE current.maturity_level
    IN  [feasible                         |-> feasible,
         current_potential                |-> current_potential,
         total_potential_with_initiatives |-> total_potential,
         gap                              |-> Max(0, target - total_potential),
         required_maturity_level          |-> required_level,
         required_maturity_name           |-> MATURITY_LEVELS[required_level].name,
         recommendations                  |->
             _generate_recommendations(current, required_level)]

(***************************************************************************)
(* Inputs of a calculation request.                                        *)
(***************************************************************************)
TotalHoursValues == {(CALIBRATED_HOURS \div 2) * k : k \in 0..MaxSizeSteps}

BlendedRates == 0..MaxRate

\* every phase at the slider minimum except Build and Post Go-Live
SkewedAllocation ==
    "Discover" :> 1 @@ "Plan" :> 1 @@ "Design" :> 1 @@ "Build" :> 50 @@
    "Test" :> 1 @@ "Deploy" :> 1 @@ "Post Go-Live" :> 45

\* sliders that do not total 100
UnbalancedAllocation ==
    "Discover" :> 5 @@ "Plan" :> 10 @@ "Design" :> 15 @@ "Build" :> 25 @@
    "Test" :> 30 @@ "Deploy" :> 10 @@ "Post Go-Live" :> 15

PhaseAllocations ==
    {DEFAULT_PHASE_ALLOCATION, SkewedAllocation, UnbalancedAllocation}

\* the core does not validate maturity: -50 is a caller error that adds hours
MaturityValues == {-50, 0, 50, 100}

\* the realistic mix of the matrix's calibration note
RealisticMix ==
    "Modernization Studio" :> 90 @@ "AI/Automation" :> 90 @@ "N2S CARM" :> 95 @@
    "Preconfigured Envs" :> 90 @@ "Automated Testing" :> 71 @@ "EDCC" :> 95 @@
    "Integration Code Reuse" :> 56 @@ "Agile + DevOps Practices" :> 90

\* a maturity dict with no key at all
EmptyMaturity == [i \in {} |-> 0]

\* a caller error: a positive and a negative maturity that sum to zero
OffsettingMaturity ==
    [i \in Initiatives |->
        IF i = "Automated Testing" THEN 50 ELSE IF i = "EDCC" THEN -50 ELSE 0]

MaturityMaps ==
    {[i \in Initiatives |-> v] : v \in MaturityValues}
    \cup {[i \in Initiatives |-> IF i = j THEN v ELSE 0] :
              j \in Initiatives, v \in MaturityValues \ {0}}
    \cup {[i \in Initiatives \ {j} |-> v] : j \in Initiatives, v \in {0, 50}}
    \cup {RealisticMix, EmptyMaturity, OffsettingMaturity}

CostAvoidanceConfigs ==
    {COST_AVOIDANCE_OPTIONS[k] : k \in DOMAIN COST_AVOIDANCE_OPTIONS}
    \cup {NoConfig, [multiplier |-> 0]}

(***************************************************************************)
(* Inputs of the role and category functions.                              *)
(***************************************************************************)
\* phase-hour dicts: any set of phases as keys, the same whole hours for each,
\* and one dict with different hours per phase
PhaseHoursInputs ==
    {[p \in D |-> h] : D \in SUBSET Phases, h \in 0..MaxPhaseHours}
    \cup {[p \in Phases |-> IndexOf(PHASE_ORDER, p) % (MaxPhaseHours + 1)]}

NoMultipliers == [r \in {} |-> RInt(1)]

\* every initiative at 50, and the same with Automated Testing at 100
HalfMaturity == [i \in Initiatives |-> 50]

TestingLedMaturity ==
    [i \in Initiatives |-> IF i = "Automated Testing" THEN 100 ELSE 50]

\* the multiplier dicts a caller passes: none, one category table as it is,
\* or the result of calculate_role_initiative_multipliers for a maturity map
RoleMultiplierInputs ==
    {NoMultipliers}
    \cup {[r \in Roles |-> Rat(ROLE_INITIATIVE_MULTIPLIERS[k][r], 100)] :
              k \in DOMAIN ROLE_INITIATIVE_MULTIPLIERS}
    \cup {calculate_role_initiative_multipliers(ml, default_initiative_mapping) :
              ml \in {HalfMaturity, TestingLedMaturity}}

\* mapping arguments: the default (None), a mapping of two initiatives only,
\* a mapping that names a multiplier table that does not exist, and {}
InitiativeMappingInputs ==
    {default_initiative_mapping,
     [i \in {"Automated Testing", "N2S CARM"} |-> default_initiative_mapping[i]],
     [i \in Initiatives |->
         IF i = "EDCC" THEN "Retired Table" ELSE default_initiative_mapping[i]],
     [i \in {} |-> ""]}

RoleHourTable(a, b) ==
    [r \in Roles |-> [p \in Phases |->
        RInt((a + b * (IndexOf(ROLE_ORDER, r) + IndexOf(PHASE_ORDER, p)))
                 % (MaxTableHours + 1))]]

RoleHourTables == {RoleHourTable(a, b) : a \in 0..MaxTableHours, b \in 0..1}

\* answers to the assessment: slider values within each slider's range and
\* options of each selectbox
AssessmentInputs ==
    {[test_automation_coverage |-> coverage, ci_cd_maturity |-> cicd,
      code_reuse_level |-> reuse, environment_automation |-> env,
      documentation_automation |-> doc] :
        coverage \in {0, 30, 60, 100},
        cicd \in {AUTOMATION_ASSESSMENT["ci_cd_maturity"].options[n] : n \in 1..5},
        reuse \in {0, 20, 80},
        env \in {AUTOMATION_ASSESSMENT["environment_automation"].options[n] :
                     n \in {1, 2, 5}},
        doc \in {AUTOMATION_ASSESSMENT["documentation_automation"].options[n] :
                     n \in {2, 5}}}

\* the target slider: 5 to 35 percent in steps of 1
TargetSavingsInputs == {t * SavingsScale : t \in 5..35}

\* selected_initiatives: none, or the whole catalog
SelectedInitiativesInputs == {<<>>, INITIATIVE_FALLBACK}

(***************************************************************************)
(* create_sidebar_controls (src/app.py): the validation of the phase       *)
(* sliders.  abs(total_allocation - 100) > 0.1 shows an error in the       *)
(* sidebar; the function then goes on and returns the controls dict.       *)
(***************************************************************************)
allocation_error(pa) == Abs(sum_values(pa) - 100) * 10 > 1

\* risk weights in halves: the sidebar defaults, and a dict with two phases
RiskWeightInputs ==
    {DEFAULT_RISK_WEIGHTS, "Build" :> 1 @@ "Test" :> 3}

(***************************************************************************)
(* State: the model instance, the locals of main and of                    *)
(* calculate_with_new_model (src/app.py), the arguments and results of the *)
(* role and category functions, and the position of the caller in its      *)
(* sequence of calls.  earlier_run keeps the request and the results of a  *)
(* run that has returned, for comparison with a later run.                 *)
(***************************************************************************)
VARIABLES
    pc, config_role_phase_allocation,
    maturity_levels, total_hours, phase_allocation, sidebar_error,
    baseline_hours, modeled_hours, effective_matrix,
    blended_rate, cost_avoidance_config,
    cost_results, risk_weights, risk_adjusted_hours, kpi_summary,
    savings_detail_df, initiative_impact_df, validation,
    phase_hours, include_savings, role_specific_multipliers, role_hours,
    initiative_mapping, role_multipliers,
    baseline_role_hours, modeled_role_hours, category_savings,
    assessment_responses, current_maturity, target_savings,
    selected_initiatives, feasibility,
    earlier_run

core_vars == <<maturity_levels, total_hours, phase_allocation, sidebar_error,
               baseline_hours, modeled_hours, effective_matrix,
               blended_rate, cost_avoidance_config,
               cost_results, risk_weights, risk_adjusted_hours, kpi_summary,
               savings_detail_df, initiative_impact_df, validation>>

role_vars == <<config_role_phase_allocation, phase_hours, include_savings,
               role_specific_multipliers, role_hours>>

multiplier_vars == <<initiative_mapping, role_multipliers>>

category_vars == <<baseline_role_hours, modeled_role_hours, category_savings>>

feasibility_vars == <<assessment_responses, current_maturity, target_savings,
                      selected_initiatives, feasibility>>

vars == <<pc, self_matrix_data, core_vars, role_vars, multiplier_vars,
          category_vars, feasibility_vars, earlier_run>>

NoHours == [phase \in Phases |-> 0]

NoMatrix == [initiative \in Initiatives |-> NoHours]

NoCosts == [baseline_cost |-> NoHours, modeled_cost |-> NoHours,
            savings |-> NoHours, avoidance |-> NoHours]

NoKpi == get_kpi_summary(NoHours, NoHours, NoCosts)

NoPhaseHours == [p \in {} |-> 0]

NoRoleHours == [r \in Roles |-> [p \in Phases |-> RInt(0)]]

NoCategorySavings == [r \in Roles |-> [c \in Categories |-> RInt(0)]]

NoRoleMultipliers == [r \in Roles |-> RInt(1)]

NoDetail == [cell \in {} |-> 0]

NoValidation == [is_valid |-> TRUE, warning |-> ""]

NoResponses == [q \in {} |-> 0]

NoMaturity == assess_current_maturity(NoResponses)

NoFeasibility == calculate_target_feasibility(NoMaturity, 0, <<>>)

NoRun == [request |-> <<>>, results |-> <<>>]

FreshLocals ==
    /\ maturity_levels = [i \in Initiatives |-> 0]
    /\ total_hours = 0
    /\ phase_allocation = DEFAULT_PHASE_ALLOCATION
    /\ sidebar_error = FALSE
    /\ baseline_hours = NoHours
    /\ modeled_hours = NoHours
    /\ effective_matrix = NoMatrix
    /\ blended_rate = 0
    /\ cost_avoidance_config = NoConfig
    /\ cost_results = NoCosts
    /\ risk_weights = DEFAULT_RISK_WEIGHTS
    /\ risk_adjusted_hours = NoHours
    /\ kpi_summary = NoKpi
    /\ savings_detail_df = NoDetail
    /\ initiative_impact_df = <<>>
    /\ validation = NoValidation
    /\ config_role_phase_allocation = ROLE_PHASE_ALLOCATION
    /\ phase_hours = NoPhaseHours
    /\ include_savings = FALSE
    /\ role_specific_multipliers = NoMultipliers
    /\ role_hours = NoRoleHours
    /\ initiative_mapping = default_initiative_mapping
    /\ role_multipliers = NoRoleMultipliers
    /\ baseline_role_hours = NoRoleHours
    /\ modeled_role_hours = NoRoleHours
    /\ category_savings = NoCategorySavings
    /\ assessment_responses = NoResponses
    /\ current_maturity = NoMaturity
    /\ target_savings = 0
    /\ selected_initiatives = <<>>
    /\ feasibility = NoFeasibility

\* initialize_model() has constructed the instance: __init__ loads the matrix
Init ==
    /\ pc = "idle"
    /\ self_matrix_data = get_calibrated_matrix
    /\ earlier_run = NoRun
    /\ FreshLocals

\* main: create_sidebar_controls reads the widgets, validates the allocation
\* and returns the controls; it returns a dict on every path, so the
\* `controls is None` exit of main is never taken
CreateSidebarControls ==
    /\ pc = "idle"
    /\ \E ml \in MaturityMaps, th \in TotalHoursValues, pa \in PhaseAllocations :
          /\ maturity_levels' = ml
          /\ total_hours' = th
          /\ phase_allocation' = pa
          /\ sidebar_error' = allocation_error(pa)
    /\ pc' = "controls"
    /\ UNCHANGED <<self_matrix_data, baseline_hours, modeled_hours,
                   effective_matrix, blended_rate, cost_avoidance_config,
                   cost_results, risk_weights, risk_adjusted_hours, kpi_summary, savings_detail_df,
                   initiative_impact_df, validation,
                   role_vars, category_vars, multiplier_vars,
                   feasibility_vars, earlier_run>>

ApplyMaturityLevels ==
    /\ pc = "controls"
    /\ LET r == apply_maturity_levels(maturity_levels, total_hours,
                                      phase_allocation)
       IN  /\ baseline_hours' = r.baseline_hours
           /\ modeled_hours' = r.modeled_hours
           /\ effective_matrix' = r.effective_matrix
           /\ savings_detail_df' = r.savings_df
    /\ self_matrix_data' = matrix_data_after_scaling(self_matrix_data, total_hours)
    /\ pc' = "applied"
    /\ UNCHANGED <<maturity_levels, total_hours, phase_allocation, sidebar_error,
                   blended_rate, cost_avoidance_config,
                   cost_results, risk_weights, risk_adjusted_hours, kpi_summary, initiative_impact_df,
                   validation,
                   role_vars, category_vars, multiplier_vars,
                   feasibility_vars, earlier_run>>

CalculateCostsAndSavings ==
    /\ pc = "applied"
    /\ \E rate \in BlendedRates, config \in CostAvoidanceConfigs :
          /\ blended_rate' = rate
          /\ cost_avoidance_config' = config
          /\ cost_results' = calculate_costs_and_savings(
                 baseline_hours, modeled_hours, rate, TRUE, config)
    /\ pc' = "costed"
    /\ UNCHANGED <<self_matrix_data, maturity_levels, total_hours,
                   phase_allocation, sidebar_error,
                   baseline_hours, modeled_hours, effective_matrix,
                   risk_weights, risk_adjusted_hours, kpi_summary, savings_detail_df,
                   initiative_impact_df, validation,
                   role_vars, category_vars, multiplier_vars,
                   feasibility_vars, earlier_run>>

CalculateRiskAdjustedHours ==
    /\ pc = "costed"
    /\ \E weights \in RiskWeightInputs :
          /\ risk_weights' = weights
          /\ risk_adjusted_hours' =
                 calculate_risk_adjusted_hours(modeled_hours, weights)
          /\ modeled_hours' = modeled_hours_after_risk(modeled_hours, weights)
    /\ pc' = "risked"
    /\ UNCHANGED <<self_matrix_data, maturity_levels, total_hours,
                   phase_allocation, sidebar_error,
                   baseline_hours, effective_matrix,
                   blended_rate, cost_avoidance_config, cost_results,
                   kpi_summary, savings_detail_df,
                   initiative_impact_df, validation, role_vars, category_vars, multiplier_vars,
                   feasibility_vars, earlier_run>>

GetKpiSummary ==
    /\ pc = "risked"
    /\ kpi_summary' = get_kpi_summary(baseline_hours, modeled_hours, cost_results)
    /\ pc' = "summarised"
    /\ UNCHANGED <<self_matrix_data, maturity_levels, total_hours,
                   phase_allocation, sidebar_error,
                   baseline_hours, modeled_hours, effective_matrix,
                   blended_rate, cost_avoidance_config, cost_results,
                   risk_weights, risk_adjusted_hours,
                   savings_detail_df, initiative_impact_df, validation,
                   role_vars, category_vars, multiplier_vars,
                   feasibility_vars, earlier_run>>

\* the last call of calculate_with_new_model; the table applies the matrix
\* again, for the sum of the baseline hours
GenerateInitiativeImpactTable ==
    /\ pc = "summarised"
    /\ initiative_impact_df' =
           generate_initiative_impact_table(
               baseline_hours, modeled_hours, maturity_levels, blended_rate,
               TRUE, cost_avoidance_config)
    /\ self_matrix_data' =
           matrix_data_after_scaling(self_matrix_data,
                                     sum_values(baseline_hours) \div HoursScale)
    /\ pc' = "impact"
    /\ UNCHANGED <<maturity_levels, total_hours, phase_allocation, sidebar_error,
                   baseline_hours, modeled_hours, effective_matrix,
                   blended_rate, cost_avoidance_config, cost_results,
                   risk_weights, risk_adjusted_hours, kpi_summary,
                   savings_detail_df, validation,
                   role_vars, category_vars, multiplier_vars,
                   feasibility_vars, earlier_run>>

\* main: validate_scenario_results on the totals of the KPI summary; a
\* warning is shown when the result is not valid
ValidateScenarioResults ==
    /\ pc = "impact"
    /\ validation' = validate_scenario_results(kpi_summary.total_baseline_cost,
                                               kpi_summary.total_modeled_cost)
    /\ pc' = "validated"
    /\ UNCHANGED <<self_matrix_data, maturity_levels, total_hours,
                   phase_allocation, sidebar_error,
                   baseline_hours, modeled_hours, effective_matrix,
                   blended_rate, cost_avoidance_config, cost_results,
                   risk_weights, risk_adjusted_hours, kpi_summary,
                   savings_detail_df, initiative_impact_df,
                   role_vars, category_vars, multiplier_vars,
                   feasibility_vars, earlier_run>>

\* the function is called with the allocation table config.py holds at the
\* time; the edited tables are tried with hours for every phase
CalculateRoleBasedHours ==
    /\ pc = "idle"
    /\ \E table \in RolePhaseAllocationInputs, ph \in PhaseHoursInputs,
          include_sv \in BOOLEAN, multipliers \in RoleMultiplierInputs :
          /\ table = ROLE_PHASE_ALLOCATION \/ DOMAIN ph = Phases
          /\ config_role_phase_allocation' = table
          /\ phase_hours' = ph
          /\ include_savings' = include_sv
          /\ role_specific_multipliers' = multipliers
          /\ role_hours' =
                 calculate_role_based_hours(table, ph, include_sv, multipliers)
    /\ pc' = "role_hours"
    /\ UNCHANGED <<self_matrix_data, core_vars, category_vars, multiplier_vars,
                   feasibility_vars, earlier_run>>

\* role_multipliers = calculate_role_initiative_multipliers(maturity_levels)
CalculateRoleInitiativeMultipliers ==
    /\ pc = "idle"
    /\ \E ml \in MaturityMaps, mapping \in InitiativeMappingInputs :
          /\ maturity_levels' = ml
          /\ initiative_mapping' = mapping
          /\ role_multipliers' = calculate_role_initiative_multipliers(ml, mapping)
    /\ pc' = "multipliers"
    /\ UNCHANGED <<self_matrix_data, total_hours, phase_allocation, sidebar_error,
                   baseline_hours, modeled_hours,
                   effective_matrix, blended_rate, cost_avoidance_config,
                   cost_results, risk_weights, risk_adjusted_hours, kpi_summary, savings_detail_df,
                   initiative_impact_df, validation,
                   role_vars, category_vars, feasibility_vars, earlier_run>>

CalculateSavingsByCategory ==
    /\ pc = "idle"
    /\ \E brh \in RoleHourTables, mrh \in RoleHourTables, ml \in MaturityMaps :
          /\ baseline_role_hours' = brh
          /\ modeled_role_hours' = mrh
          /\ maturity_levels' = ml
          /\ category_savings' = calculate_savings_by_category(brh, mrh, ml)
    /\ pc' = "categories"
    /\ UNCHANGED <<self_matrix_data, total_hours, phase_allocation, sidebar_error,
                   baseline_hours, modeled_hours,
                   effective_matrix, blended_rate, cost_avoidance_config,
                   cost_results, risk_weights, risk_adjusted_hours, kpi_summary, savings_detail_df,
                   initiative_impact_df, validation,
                   role_vars, multiplier_vars, feasibility_vars, earlier_run>>

\* current_maturity = assess_current_maturity(assessment_responses)
AssessCurrentMaturity ==
    /\ pc = "idle"
    /\ \E responses \in AssessmentInputs :
          /\ assessment_responses' = responses
          /\ current_maturity' = assess_current_maturity(responses)
    /\ pc' = "assessed"
    /\ UNCHANGED <<self_matrix_data, core_vars, role_vars, multiplier_vars,
                   category_vars, target_savings, selected_initiatives,
                   feasibility, earlier_run>>

\* feasibility = calculate_target_feasibility(current_maturity,
\*     target_savings, available_initiatives)
CalculateTargetFeasibility ==
    /\ pc = "assessed"
    /\ \E target \in TargetSavingsInputs, selected \in SelectedInitiativesInputs :
          /\ target_savings' = target
          /\ selected_initiatives' = selected
          /\ feasibility' =
                 calculate_target_feasibility(current_maturity, target, selected)
    /\ pc' = "feasibility"
    /\ UNCHANGED <<self_matrix_data, core_vars, role_vars, multiplier_vars,
                   category_vars, assessment_responses, current_maturity,
                   earlier_run>>

\* the caller returns; the next request starts from fresh locals and uses
\* the model instance as the runs before it left it
ReturnKeeping(run) ==
    /\ pc' = "idle"
    /\ maturity_levels' = [i \in Initiatives |-> 0]
    /\ total_hours' = 0
    /\ phase_allocation' = DEFAULT_PHASE_ALLOCATION
    /\ sidebar_error' = FALSE
    /\ baseline_hours' = NoHours
    /\ modeled_hours' = NoHours
    /\ effective_matrix' = NoMatrix
    /\ blended_rate' = 0
    /\ cost_avoidance_config' = NoConfig
    /\ cost_results' = NoCosts
    /\ risk_weights' = DEFAULT_RISK_WEIGHTS
    /\ risk_adjusted_hours' = NoHours
    /\ kpi_summary' = NoKpi
    /\ savings_detail_df' = NoDetail
    /\ initiative_impact_df' = <<>>
    /\ validation' = NoValidation
    /\ config_role_phase_allocation' = ROLE_PHASE_ALLOCATION
    /\ phase_hours' = NoPhaseHours
    /\ include_savings' = FALSE
    /\ role_specific_multipliers' = NoMultipliers
    /\ role_hours' = NoRoleHours
    /\ initiative_mapping' = default_initiative_mapping
    /\ role_multipliers' = NoRoleMultipliers
    /\ baseline_role_hours' = NoRoleHours
    /\ modeled_role_hours' = NoRoleHours
    /\ category_savings' = NoCategorySavings
    /\ assessment_responses' = NoResponses
    /\ current_maturity' = NoMaturity
    /\ target_savings' = 0
    /\ selected_initiatives' = <<>>
    /\ feasibility' = NoFeasibility
    /\ earlier_run' = run
    /\ UNCHANGED self_matrix_data

Return ==
    /\ pc \in {"validated", "role_hours", "multipliers", "categories",
              "feasibility"}
    /\ ReturnKeeping(earlier_run)

Next ==
    \/ CreateSidebarControls
    \/ ApplyMaturityLevels
    \/ CalculateCostsAndSavings
    \/ CalculateRiskAdjustedHours
    \/ GetKpiSummary
    \/ GenerateInitiativeImpactTable
    \/ ValidateScenarioResults
    \/ CalculateRoleBasedHours
    \/ CalculateRoleInitiativeMultipliers
    \/ CalculateSavingsByCategory
    \/ AssessCurrentMaturity
    \/ CalculateTargetFeasibility
    \/ Return

Spec == Init /\ [][Next]_vars

TypeOK ==
    pc \in {"idle", "controls", "applied", "costed", "risked", "summarised",
            "impact", "validated", "role_hours", "multipliers", "categories",
            "assessed", "feasibility"}

(***************************************************************************)
(* Repeated runs on one instance: as Spec, and a run that returns may be   *)
(* kept in earlier_run so that a later run of the same request can be      *)
(* compared with it.  One run is kept, of a request of RerunRequests.      *)
(***************************************************************************)
CurrentRequest ==
    <<maturity_levels, total_hours, phase_allocation, blended_rate,
      cost_avoidance_config, risk_weights>>

CurrentResults ==
    <<baseline_hours, modeled_hours, effective_matrix, cost_results,
      risk_adjusted_hours, kpi_summary>>

RerunRequests ==
    {<<ml, th, DEFAULT_PHASE_ALLOCATION, MaxRate,
       COST_AVOIDANCE_OPTIONS["Moderate (2.5x)"], DEFAULT_RISK_WEIGHTS>> :
         ml \in {[i \in Initiatives |-> 50], RealisticMix},
         th \in TotalHoursValues \ {0}}

ReturnRemembered ==
    /\ pc = "validated"
    /\ earlier_run = NoRun
    /\ CurrentRequest \in RerunRequests
    /\ ReturnKeeping([request |-> CurrentRequest, results |-> CurrentResults])

NextRerun ==
    \/ CreateSidebarControls
    \/ ApplyMaturityLevels
    \/ CalculateCostsAndSavings
    \/ CalculateRiskAdjustedHours
    \/ GetKpiSummary
    \/ GenerateInitiativeImpactTable
    \/ ValidateScenarioResults
    \/ Return
    \/ ReturnRemembered

SpecRerun == Init /\ [][NextRerun]_vars

(***************************************************************************)
(* Properties of the calculation pipeline (specification Spec).            *)
(***************************************************************************)
Applied == pc \in {"applied", "costed", "risked", "summarised"}

Costed == pc \in {"costed", "risked", "summarised"}

AllMaturityZero ==
    \A i \in Initiatives : i \in DOMAIN maturity_levels /\ maturity_levels[i] = 0

AllocationTotal == SumOver(phase_allocation, PHASE_ORDER)

\* C1: with every catalog initiative at maturity 0 the modeled hours equal
\* the baseline hours in every phase, and the KPI summary reports
\* total_hours_saved = 0 and total_hours_saved_pct = 0.
TheoremC1 ==
    (Applied /\ AllMaturityZero) =>
        /\ \A p \in Phases : modeled_hours[p] = baseline_hours[p]
        /\ pc = "summarised" =>
              /\ kpi_summary.total_hours_saved = 0
              /\ kpi_summary.total_hours_saved_pct.n = 0

WitnessC1 ==
    /\ pc = "summarised"
    /\ AllMaturityZero
    /\ total_hours = CALIBRATED_HOURS
    /\ phase_allocation = DEFAULT_PHASE_ALLOCATION
    /\ kpi_summary.total_baseline_hours = CALIBRATED_HOURS * HoursScale

\* C2: when the allocation percentages sum to 100, the baseline hours of
\* all phases sum to exactly total_hours.
TheoremC2 ==
    (Applied /\ AllocationTotal = 100) =>
        sum_values(baseline_hours) = total_hours * HoursScale

WitnessC2 ==
    /\ pc = "applied"
    /\ AllocationTotal = 100
    /\ total_hours = CALIBRATED_HOURS \div 2
    /\ \E p \in Phases : baseline_hours[p] % HoursScale # 0

\* C3: the modeled hours of every phase are never negative, also when the
\* stacked savings exceed the baseline of the phase.
TheoremC3 == \A p \in Phases : modeled_hours[p] >= 0

WitnessC3 ==
    /\ pc = "applied"
    /\ \E p \in Phases :
          /\ baseline_hours[p] > 0
          /\ baseline_hours[p] + total_delta(effective_matrix, p) < 0
          /\ modeled_hours[p] = 0

\* C4: effective[i,p] = matrix[i,p] * (total_hours / 17054) * (maturity[i] / 100)
\* for every initiative with a maturity and every phase, without cap or
\* saturation, and an initiative at maturity 0 has effective 0 in every phase.
\* (effective is stored times HoursScale.)
TheoremC4 ==
    Applied =>
        \A i \in Initiatives \cap DOMAIN maturity_levels : \A p \in Phases :
            /\ effective_matrix[i][p] * CALIBRATED_HOURS
                  = matrix_data(i, p) * total_hours * maturity_levels[i] * 2
            /\ maturity_levels[i] = 0 => effective_matrix[i][p] = 0

WitnessC4 ==
    /\ pc = "applied"
    /\ total_hours = CALIBRATED_HOURS \div 2
    /\ \E i, j \in Initiatives \cap DOMAIN maturity_levels :
          /\ maturity_levels[i] = 50
          /\ effective_matrix[i]["Test"] < 0
          /\ maturity_levels[j] = 0
          /\ effective_matrix[j]["Test"] = 0

DevSavingsTotal ==
    SumOver([p \in Phases |->
                cost_results.baseline_cost[p] - cost_results.modeled_cost[p]],
            <<"Discover", "Plan", "Design", "Build", "Test", "Deploy">>)

\* C6: with a cost-avoidance config, avoidance['Post Go-Live'] =
\* max(0, dev_savings_total * ongoing_factor) * multiplier, where
\* dev_savings_total sums the direct savings of the six development phases
\* and is floored at 0 before the multiplier is applied; the avoidance of
\* every other phase is 0.
TheoremC6 ==
    (Costed /\ DOMAIN cost_avoidance_config # {}) =>
        /\ cost_results.avoidance["Post Go-Live"] =
              (IF DevSavingsTotal * get_ongoing_factor(cost_avoidance_config) > 0
               THEN DevSavingsTotal * get_ongoing_factor(cost_avoidance_config)
               ELSE 0) * get_multiplier(cost_avoidance_config)
        /\ \A p \in Phases \ {"Post Go-Live"} : cost_results.avoidance[p] = 0

WitnessC6 ==
    /\ pc = "costed"
    /\ DevSavingsTotal < 0
    /\ get_ongoing_factor(cost_avoidance_config) > 0
    /\ get_multiplier(cost_avoidance_config) > 0
    /\ cost_results.avoidance["Post Go-Live"] = 0

\* C7: when the multiplier of the cost-avoidance config is 0, the avoidance
\* of every phase is 0 and total_cost_avoidance is 0, whatever the maturity,
\* the total hours, the allocation and the rate.
TheoremC7 ==
    (/\ Costed
     /\ "multiplier" \in DOMAIN cost_avoidance_config
     /\ cost_avoidance_config["multiplier"] = 0) =>
        /\ \A p \in Phases : cost_results.avoidance[p] = 0
        /\ pc = "summarised" => kpi_summary.total_cost_avoidance = 0

WitnessC7 ==
    /\ pc = "summarised"
    /\ "multiplier" \in DOMAIN cost_avoidance_config
    /\ cost_avoidance_config["multiplier"] = 0
    /\ get_ongoing_factor(cost_avoidance_config) > 0
    /\ DevSavingsTotal > 0
    /\ kpi_summary.total_cost_avoidance = 0

GoldenRequest ==
    /\ pc = "summarised"
    /\ total_hours = CALIBRATED_HOURS
    /\ phase_allocation = DEFAULT_PHASE_ALLOCATION
    /\ maturity_levels = [i \in Initiatives |-> 50]

\* C12 as stated: with total_hours = 17054, the default phase allocation and
\* every initiative at maturity 50, total_hours_saved_pct is the documented
\* calibration reference of 8.7 (to one decimal: at least 8.65, below 8.75).
StatedC12 ==
    GoldenRequest =>
        LET saved    == kpi_summary.total_hours_saved \div HoursScale
            baseline == kpi_summary.total_baseline_hours \div HoursScale
        IN  /\ saved * 10000 >= 865 * baseline
            /\ saved * 10000 < 875 * baseline

\* C16: the KPI summary is derived by summation: total_hours_saved =
\* sum(baseline_hours) - sum(modeled_hours); total_hours_saved_pct =
\* total_hours_saved / sum(baseline_hours) * 100, and 0 when the baseline total
\* is not positive; total_cost_savings = total_baseline_cost - total_modeled_cost;
\* total_financial_benefit = total_cost_savings + total_cost_avoidance.
\* (The benefit is in the unit of avoidance.)
TheoremC16 ==
    pc = "summarised" =>
        LET hours_before == SumOver(baseline_hours, PHASE_ORDER)
            hours_after  == SumOver(modeled_hours, PHASE_ORDER)
        IN  /\ kpi_summary.total_baseline_hours = hours_before
            /\ kpi_summary.total_modeled_hours = hours_after
            /\ kpi_summary.total_hours_saved = hours_before - hours_after
            /\ IF hours_before > 0
               THEN /\ kpi_summary.total_hours_saved_pct.n
                          = (hours_before - hours_after) * 100
                    /\ kpi_summary.total_hours_saved_pct.d = hours_before
               ELSE kpi_summary.total_hours_saved_pct.n = 0
            /\ kpi_summary.total_baseline_cost
                  = SumOver(cost_results.baseline_cost, PHASE_ORDER)
            /\ kpi_summary.total_modeled_cost
                  = SumOver(cost_results.modeled_cost, PHASE_ORDER)
            /\ kpi_summary.total_cost_savings
                  = kpi_summary.total_baseline_cost - kpi_summary.total_modeled_cost
            /\ kpi_summary.total_cost_avoidance
                  = SumOver(cost_results.avoidance, PHASE_ORDER)
            /\ kpi_summary.total_financial_benefit
                  = kpi_summary.total_cost_savings * AvoidanceScale
                        + kpi_summary.total_cost_avoidance

WitnessC16 ==
    /\ pc = "summarised"
    /\ kpi_summary.total_hours_saved > 0
    /\ kpi_summary.total_hours_saved_pct.n > 0
    /\ kpi_summary.total_cost_savings > 0
    /\ kpi_summary.total_cost_avoidance > 0
    /\ kpi_summary.total_financial_benefit
          > kpi_summary.total_cost_savings * AvoidanceScale

\* C17: risk_adjusted[p] = modeled_hours[p] * risk_weight[p] for every phase
\* with a supplied weight, the weights taken as they are, and
\* risk_adjusted[p] = modeled_hours[p] for a phase with no supplied weight.
\* (risk_adjusted is stored times RiskScale, the weights in halves.)
TheoremC17 ==
    pc \in {"risked", "summarised"} =>
        \A p \in Phases :
            IF p \in DOMAIN risk_weights
            THEN risk_adjusted_hours[p] = modeled_hours[p] * risk_weights[p]
            ELSE risk_adjusted_hours[p] = modeled_hours[p] * RiskScale

WitnessC17 ==
    /\ pc = "risked"
    /\ "Design" \notin DOMAIN risk_weights
    /\ modeled_hours["Design"] > 0
    /\ risk_adjusted_hours["Design"] = modeled_hours["Design"] * RiskScale
    /\ "Test" \in DOMAIN risk_weights
    /\ risk_weights["Test"] # RiskScale
    /\ risk_adjusted_hours["Test"] > modeled_hours["Test"] * RiskScale

SameButRiskWeights(request) ==
    /\ Len(request) = Len(CurrentRequest)
    /\ \A n \in 1..5 : request[n] = CurrentRequest[n]
    /\ request[6] # CurrentRequest[6]

\* C18: risk weights do not feed back.  A run that differs from an earlier
\* run in its risk weights only ends with the same baseline and modeled
\* hours, the same cost breakdown and the same KPI summary as that run.
TheoremC18 ==
    (pc = "summarised" /\ SameButRiskWeights(earlier_run.request)) =>
        \A n \in {1, 2, 3, 4, 6} : earlier_run.results[n] = CurrentResults[n]

WitnessC18 ==
    /\ pc = "summarised"
    /\ SameButRiskWeights(earlier_run.request)
    /\ earlier_run.results[5] # risk_adjusted_hours
    /\ kpi_summary.total_modeled_hours > 0

\* C20 as stated: the pipeline is only ever invoked with a phase allocation
\* whose percentages sum to 100; an allocation that fails the sum check of
\* the sidebar never reaches apply_maturity_levels.
StatedC20 ==
    Applied => (AllocationTotal = 100 /\ ~sidebar_error)

(***************************************************************************)
(* Properties of the role and category functions.                          *)
(***************************************************************************)
RoleWeight(r, p) ==
    ROLE_DEFINITIONS[r].base_hours * ROLE_PHASE_ALLOCATION[r][p]

TotalRoleWeight ==
    [p \in Phases |-> SumOver([r \in Roles |-> RoleWeight(r, p)], ROLE_ORDER)]

PhaseRoleSum(table, p) ==
    RSumOver([r \in Roles |-> table[r][p]], ROLE_ORDER)

\* C9: for the baseline scenario (include_savings = False) the role hours of
\* every phase sum over all roles to the hours of the phase, each role getting
\* phase_hours[p] * w[r,p] / W[p] with w[r,p] = base_hours[r] * allocation[r,p] / 100.
TheoremC9 ==
    (/\ pc = "role_hours"
     /\ ~include_savings
     /\ config_role_phase_allocation = ROLE_PHASE_ALLOCATION) =>
        \A p \in DOMAIN phase_hours :
            /\ PhaseRoleSum(role_hours, p) = RInt(phase_hours[p])
            /\ \A r \in Roles :
                  role_hours[r][p] =
                      Rat(phase_hours[p] * RoleWeight(r, p), TotalRoleWeight[p])

WitnessC9 ==
    /\ pc = "role_hours"
    /\ ~include_savings
    /\ config_role_phase_allocation = ROLE_PHASE_ALLOCATION
    /\ DOMAIN role_specific_multipliers # {}
    /\ DOMAIN phase_hours = Phases
    /\ \E p, q \in Phases : 0 < phase_hours[p] /\ phase_hours[p] < phase_hours[q]
    /\ \A r \in Roles : role_hours[r]["Build"].d > 1

MaturityInRange ==
    \A i \in DOMAIN maturity_levels :
        maturity_levels[i] >= 0 /\ maturity_levels[i] <= 100

RoleSaved(r) ==
    RSub(RSumOver(baseline_role_hours[r], PHASE_ORDER),
         RSumOver(modeled_role_hours[r], PHASE_ORDER))

MaturityTotal ==
    SumOver([i \in Initiatives |->
                IF i \in DOMAIN maturity_levels THEN maturity_levels[i] ELSE 0],
            INITIATIVE_FALLBACK)

ExpectedCategory(r, c) ==
    Rat(RoleSaved(r).n * SumOver(
            [i \in Initiatives |->
                IF i \in DOMAIN maturity_levels
                   /\ c \in DOMAIN SAVINGS_CATEGORY_MAPPING[i]
                THEN maturity_levels[i] * SAVINGS_CATEGORY_MAPPING[i][c] ELSE 0],
            INITIATIVE_FALLBACK),
        RoleSaved(r).d * 100 * MaturityTotal)

\* C10: for every role and every maturity map (percentages in 0..100) with at
\* least one maturity > 0, the three category values of the role sum to S[r],
\* the role's baseline hours minus its modeled hours over all phases, and
\* category[r,c] = sum over i of (maturity[i] / sum of maturities) * S[r] * weight[i][c].
TheoremC10 ==
    (/\ pc = "categories"
     /\ MaturityInRange
     /\ \E i \in DOMAIN maturity_levels : maturity_levels[i] > 0) =>
        \A r \in Roles :
            /\ RSumOver(category_savings[r], SAVINGS_CATEGORIES) = RoleSaved(r)
            /\ \A c \in Categories : category_savings[r][c] = ExpectedCategory(r, c)

WitnessC10 ==
    /\ pc = "categories"
    /\ maturity_levels = RealisticMix
    /\ \E r, q \in Roles :
          /\ RoleSaved(r).n > 0
          /\ RoleSaved(q).n < 0
          /\ \A c \in Categories : category_savings[r][c].n > 0

ShippedTable == config_role_phase_allocation = ROLE_PHASE_ALLOCATION

UsedMultiplier(r) ==
    IF r \in DOMAIN role_specific_multipliers
    THEN role_specific_multipliers[r] ELSE RInt(1)

ProportionalShare(r, p) ==
    Rat(phase_hours[p] * RoleWeight(r, p), TotalRoleWeight[p])

\* C13: for the modeled scenario (include_savings = True) role_hours'[r,p] =
\* phase_hours[p] * w[r,p] / W[p] * (2 - m[r]) for every role and phase, so a
\* role with m[r] > 1 gets fewer hours and a role with m[r] < 1 gets more hours
\* than its proportional share; for the baseline scenario
\* (include_savings = False) supplied multipliers have no effect.
TheoremC13 ==
    (pc = "role_hours" /\ ShippedTable) =>
        \A r \in Roles : \A p \in DOMAIN phase_hours :
            LET share == ProportionalShare(r, p)
                m == UsedMultiplier(r)
            IN  IF include_savings
                THEN /\ role_hours[r][p] = RMul(share, RSub(RInt(2), m))
                     /\ (share.n > 0 /\ RSub(m, RInt(1)).n > 0) =>
                            RSub(share, role_hours[r][p]).n > 0
                     /\ (share.n > 0 /\ RSub(m, RInt(1)).n < 0) =>
                            RSub(role_hours[r][p], share).n > 0
                ELSE role_hours[r][p] = share

WitnessC13 ==
    /\ pc = "role_hours"
    /\ ShippedTable
    /\ include_savings
    /\ DOMAIN role_specific_multipliers = Roles
    /\ phase_hours = [p \in Phases |-> MaxPhaseHours]
    /\ \E r, q \in Roles :
          /\ RSub(role_specific_multipliers[r], RInt(1)).n > 0
          /\ RSub(ProportionalShare(r, "Build"), role_hours[r]["Build"]).n > 0
          /\ RSub(role_specific_multipliers[q], RInt(1)).n < 0
          /\ RSub(role_hours[q]["Build"], ProportionalShare(q, "Build")).n > 0

HalfMaturityMultipliers ==
    calculate_role_initiative_multipliers(HalfMaturity, default_initiative_mapping)

\* C14: the role-multiplier step does not keep the exact-sum reconciliation:
\* there is a maturity map with a role multiplier different from 1 and a
\* phase with hours > 0 whose modeled role hours do not sum to the hours of
\* the phase.  With the multipliers of the map that has every initiative at
\* 50, this is so in every phase that has hours.
TheoremC14 ==
    (/\ pc = "role_hours"
     /\ ShippedTable
     /\ include_savings
     /\ role_specific_multipliers = HalfMaturityMultipliers) =>
        \A p \in DOMAIN phase_hours :
            phase_hours[p] > 0 =>
                PhaseRoleSum(role_hours, p) # RInt(phase_hours[p])

WitnessC14 ==
    /\ pc = "role_hours"
    /\ ShippedTable
    /\ include_savings
    /\ role_specific_multipliers = HalfMaturityMultipliers
    /\ \E r \in Roles : role_specific_multipliers[r] # RInt(1)
    /\ DOMAIN phase_hours = Phases
    /\ phase_hours["Test"] > 0
    /\ PhaseRoleSum(role_hours, "Test") # RInt(phase_hours["Test"])

ActiveInitiatives ==
    {i \in DOMAIN maturity_levels :
        /\ maturity_levels[i] > 0
        /\ i \in DOMAIN initiative_mapping
        /\ initiative_mapping[i] \in DOMAIN ROLE_INITIATIVE_MULTIPLIERS}

\* C15: for every role r, m[r] = (sum over i of (maturity[i] / 100) *
\* categoryMultiplier[map(i)][r]) / (sum over i of maturity[i] / 100), the
\* sums taken over the initiatives with maturity > 0 that have a defined
\* mapping; when there is no such initiative, m[r] = 1.0 for every role.
TheoremC15 ==
    pc = "multipliers" =>
        \A r \in Roles :
            IF ActiveInitiatives = {}
            THEN role_multipliers[r] = RInt(1)
            ELSE role_multipliers[r] =
                     Rat(SumOver([i \in Initiatives |->
                                     IF i \in ActiveInitiatives
                                     THEN maturity_levels[i]
                                          * ROLE_INITIATIVE_MULTIPLIERS[
                                                initiative_mapping[i]][r]
                                     ELSE 0], INITIATIVE_FALLBACK),
                         100 * SumOver([i \in Initiatives |->
                                           IF i \in ActiveInitiatives
                                           THEN maturity_levels[i] ELSE 0],
                                       INITIATIVE_FALLBACK))

WitnessC15 ==
    /\ pc = "multipliers"
    /\ maturity_levels = RealisticMix
    /\ initiative_mapping = default_initiative_mapping
    /\ ActiveInitiatives = Initiatives
    /\ \E r, q \in Roles :
          /\ RSub(role_multipliers[r], RInt(1)).n > 0
          /\ RSub(role_multipliers[q], RInt(1)).n < 0
          /\ role_multipliers[r].d > 100

TableWeight(p) ==
    SumOver([r \in Roles |->
                IF r \in DOMAIN config_role_phase_allocation
                THEN ROLE_DEFINITIONS[r].base_hours
                         * config_role_phase_allocation[r][p]
                ELSE 0], ROLE_ORDER)

\* C19: the division-by-zero guards yield zeros: a phase whose total role
\* weight W[p] is 0 gives role_hours[r,p] = 0 for every role, and a maturity
\* map whose maturities sum to 0 gives category[r,c] = 0 for every role and
\* category.
TheoremC19 ==
    /\ pc = "role_hours" =>
           \A p \in Phases :
               TableWeight(p) = 0 => \A r \in Roles : role_hours[r][p] = RInt(0)
    /\ pc = "categories" =>
           (MaturityTotal = 0 =>
               \A r \in Roles : \A c \in Categories :
                   category_savings[r][c] = RInt(0))

WitnessC19 ==
    /\ pc = "role_hours"
    /\ include_savings
    /\ TableWeight("Deploy") = 0
    /\ "Deploy" \in DOMAIN phase_hours
    /\ phase_hours["Deploy"] > 0
    /\ \A r \in Roles : role_hours[r]["Deploy"] = RInt(0)
    /\ \E r \in Roles : role_hours[r]["Build"].n > 0

(***************************************************************************)
(* Properties of the configuration tables and of the instance.             *)
(***************************************************************************)
Summarised == pc \in {"summarised", "impact", "validated"}

TheoremC22 ==
    pc = "idle" =>
        /\ \A r \in DOMAIN ROLE_DEFINITIONS :
              /\ r \in DOMAIN config_role_phase_allocation
              /\ DOMAIN config_role_phase_allocation[r] = Phases
              /\ SumOver(config_role_phase_allocation[r], PHASE_ORDER) = 100
        /\ config_role_phase_allocation = ROLE_PHASE_ALLOCATION
        /\ phase_allocation = DEFAULT_PHASE_ALLOCATION
        /\ SumOver(phase_allocation, PHASE_ORDER) = 100

WitnessC22 ==
    /\ pc = "idle"
    /\ Cardinality(DOMAIN config_role_phase_allocation) = Len(ROLE_ORDER)
    /\ config_role_phase_allocation["Degree Works Scribe"]["Build"] = 50
    /\ config_role_phase_allocation["Fin Aid Consultant"]["Post Go-Live"] = 2

\* C23: every initiative of the catalog has an entry in
\* SAVINGS_CATEGORY_MAPPING; the weights of every entry range over the three
\* categories of SAVINGS_CATEGORIES only and sum to exactly 1.0 (100
\* hundredths).  Checked where the table is used, after
\* calculate_savings_by_category.
TheoremC23 ==
    pc = "categories" =>
        /\ \A i \in Initiatives : i \in DOMAIN SAVINGS_CATEGORY_MAPPING
        /\ \A i \in DOMAIN SAVINGS_CATEGORY_MAPPING :
              /\ DOMAIN SAVINGS_CATEGORY_MAPPING[i] \subseteq Categories
              /\ SumOver([c \in Categories |->
                             IF c \in DOMAIN SAVINGS_CATEGORY_MAPPING[i]
                             THEN SAVINGS_CATEGORY_MAPPING[i][c] ELSE 0],
                         SAVINGS_CATEGORIES) = 100

WitnessC23 ==
    /\ pc = "categories"
    /\ DOMAIN maturity_levels = Initiatives
    /\ \A i \in Initiatives : maturity_levels[i] = 100
    /\ \E r \in Roles : \A c \in Categories : category_savings[r][c].n > 0

(***************************************************************************)
(* Properties of the savings detail, the impact table and the validation.  *)
(***************************************************************************)
AbsentInitiatives == Initiatives \ DOMAIN maturity_levels

NoPhaseClamped ==
    \A p \in Phases : baseline_hours[p] + total_delta(effective_matrix, p) >= 0

DetailHoursSaved ==
    SumOver([i \in Initiatives |->
                SumOver([p \in Phases |->
                            IF <<i, p>> \in DOMAIN savings_detail_df
                            THEN savings_detail_df[<<i, p>>].hours_saved ELSE 0],
                        PHASE_ORDER)],
            INITIATIVE_FALLBACK)

\* C24 as stated: an initiative that is not a key of maturity_levels is
\* treated like maturity 0 everywhere: it takes nothing off the modeled hours
\* (its effective deltas are 0), as in the savings detail, so that when no
\* phase is clamped the 'Hours Saved' of the savings detail add up to
\* sum(baseline_hours) - sum(modeled_hours).
StatedC24 ==
    (Applied /\ MaturityInRange) =>
        /\ \A i \in AbsentInitiatives : \A p \in Phases :
              effective_matrix[i][p] = 0
        /\ NoPhaseClamped =>
              DetailHoursSaved =
                  sum_values(baseline_hours) - sum_values(modeled_hours)

\* C25: for a maturity map with values in [0, 100], total_hours >= 0 and a
\* non-negative allocation, modeled_hours[p] <= baseline_hours[p] in every
\* phase; hence with blended_rate >= 0 the direct savings of every phase
\* and their development total are >= 0, and with ongoing_factor >= 0 the zero
\* floor of the avoidance changes nothing: avoidance['Post Go-Live'] =
\* dev_savings_total * ongoing_factor * multiplier.
TheoremC25 ==
    (/\ Applied
     /\ MaturityInRange
     /\ total_hours >= 0
     /\ \A p \in Phases : phase_allocation[p] >= 0) =>
        /\ \A p \in Phases : modeled_hours[p] <= baseline_hours[p]
        /\ (Costed /\ blended_rate >= 0) =>
              /\ \A p \in Phases : cost_results.savings[p] >= 0
              /\ DevSavingsTotal >= 0
              /\ (/\ DOMAIN cost_avoidance_config # {}
                  /\ get_ongoing_factor(cost_avoidance_config) >= 0) =>
                     cost_results.avoidance["Post Go-Live"] =
                         DevSavingsTotal
                             * get_ongoing_factor(cost_avoidance_config)
                             * get_multiplier(cost_avoidance_config)

WitnessC25 ==
    /\ pc = "costed"
    /\ maturity_levels = RealisticMix
    /\ blended_rate > 0
    /\ \A p \in Phases : modeled_hours[p] < baseline_hours[p]
    /\ \A p \in Phases : cost_results.savings[p] > 0
    /\ cost_results.avoidance["Post Go-Live"] > 0

\* C26: the savings percentage does not depend on the project size.  For
\* every total_hours > 0 the run has the total_hours_saved_pct, and in every
\* phase the ratio modeled_hours[p] / total_hours, that the same maturity map
\* and allocation have at the calibrated size of 17054 hours, also when the
\* zero floor triggers.  (size_scale_factor is the size in halves of 17054.)
TheoremC26 ==
    (pc = "summarised" /\ total_hours > 0) =>
        LET calibrated == apply_maturity_levels(maturity_levels, CALIBRATED_HOURS,
                                                phase_allocation)
            cal_baseline == sum_values(calibrated.baseline_hours)
            cal_saved == cal_baseline - sum_values(calibrated.modeled_hours)
            halves == size_scale_factor(total_hours)
        IN  /\ Rat(kpi_summary.total_hours_saved_pct.n,
                   kpi_summary.total_hours_saved_pct.d)
                   = Rat(cal_saved * 100, cal_baseline)
            /\ \A p \in Phases :
                  modeled_hours[p] * 2 = calibrated.modeled_hours[p] * halves

WitnessC26 ==
    /\ pc = "summarised"
    /\ total_hours = CALIBRATED_HOURS \div 2
    /\ kpi_summary.total_hours_saved > 0
    /\ \E p, q \in Phases :
          /\ baseline_hours[p] > 0
          /\ modeled_hours[p] = 0
          /\ modeled_hours[q] > 0

RoleMultiplierEntries(r) ==
    {ROLE_INITIATIVE_MULTIPLIERS[k][r] : k \in DOMAIN ROLE_INITIATIVE_MULTIPLIERS}

\* m[r] lies between the smallest and the largest entry of the role
WithinRoleEntries(m, r) ==
    /\ \E lo \in RoleMultiplierEntries(r) : lo * m.d <= m.n * 100
    /\ \E hi \in RoleMultiplierEntries(r) : m.n * 100 <= hi * m.d

\* C28: for every maturity map the derived multiplier m[r] of every role is
\* 1.0 or lies between the smallest and the largest entry of that role in
\* the ROLE_INITIATIVE_MULTIPLIERS tables, so 2 - m[r] > 0; and the modeled
\* role hours of every role and phase are >= 0 when the phase hours are.
TheoremC28 ==
    /\ pc = "multipliers" =>
           \A r \in Roles :
               /\ role_multipliers[r] = RInt(1)
                      \/ WithinRoleEntries(role_multipliers[r], r)
               /\ RSub(RInt(2), role_multipliers[r]).n > 0
    /\ (pc = "role_hours" /\ include_savings) =>
           \A r \in Roles : \A p \in DOMAIN phase_hours :
               phase_hours[p] >= 0 => role_hours[r][p].n >= 0

WitnessC28 ==
    /\ pc = "multipliers"
    /\ maturity_levels = RealisticMix
    /\ initiative_mapping = default_initiative_mapping
    /\ \E r \in Roles :
          /\ role_multipliers[r] # RInt(1)
          /\ \A e \in RoleMultiplierEntries(r) :
                Rat(e, 100) # role_multipliers[r]
          /\ WithinRoleEntries(role_multipliers[r], r)

ImpactRows == [n \in 1..Len(initiative_impact_df) |-> n]

ImpactHoursSaved ==
    RSumOver([n \in 1..Len(initiative_impact_df) |->
                 initiative_impact_df[n].total_hours_saved], ImpactRows)

\* the avoidance a row has folded into its 'Post Go-Live Cost Impact'
FoldedAvoidance(row) ==
    RSub(RNeg(row.post_golive_cost_impact),
         RMul(row.post_golive_hours, RInt(blended_rate)))

ImpactAvoidance ==
    RSumOver([n \in 1..Len(initiative_impact_df) |->
                 FoldedAvoidance(initiative_impact_df[n])], ImpactRows)

ValidInput ==
    /\ AllocationTotal = 100
    /\ DOMAIN maturity_levels = Initiatives
    /\ MaturityInRange

\* C29 as stated: the per-initiative breakdown reconciles with the totals:
\* for every valid input (allocation summing to 100, every initiative of the
\* catalog with a maturity in [0, 100]) the 'Total Hours Saved' of the rows of
\* the impact table add up to total_hours_saved of the KPI summary, and the
\* avoidance folded into the rows' 'Post Go-Live Cost Impact' adds up to
\* avoidance['Post Go-Live'] of calculate_costs_and_savings.
StatedC29 ==
    (pc \in {"impact", "validated"} /\ ValidInput) =>
        /\ ImpactHoursSaved = Rat(kpi_summary.total_hours_saved, HoursScale)
        /\ ImpactAvoidance = Rat(cost_results.avoidance["Post Go-Live"],
                                 HoursScale * AvoidanceScale)

(***************************************************************************)
(* Properties of the target feasibility analysis.                          *)
(***************************************************************************)
SufficientNote == "Your current maturity level is sufficient for this target"

\* C30 as stated: calculate_target_feasibility is self-consistent.  When it
\* reports feasible = False, gap > 0 and required_maturity_level is strictly
\* greater than the current maturity level, so the recommendations never
\* hold the note that the current level is sufficient; when it reports
\* feasible = True, gap = 0 and required_maturity_level is the current level.
StatedC30 ==
    pc = "feasibility" =>
        IF feasibility.feasible
        THEN /\ feasibility.gap = 0
             /\ feasibility.required_maturity_level = current_maturity.maturity_level
        ELSE /\ feasibility.gap > 0
             /\ feasibility.required_maturity_level > current_maturity.maturity_level
             /\ ~Contains(feasibility.recommendations, SufficientNote)

====
